---- MODULE Spec2Model ----
(***************************************************************************)
(* Agent Chatroom broker (src/server.js): the registry `clients`, the      *)
(* message, pong and close handlers of every connection, the heartbeat     *)
(* timer and the participants timer; and its client adapter                *)
(* (src/chatroom-mcp.js): the message buffer, connect and its socket       *)
(* handlers, ensureConnected and ask.  Each handler and each timer         *)
(* callback runs to completion, so each is one action.                     *)
(***************************************************************************)
EXTENDS Integers, Sequences, FiniteSets, TLC

\* ---------------------------------------------------------------- bounds
NumConns == 2          \* transport connections accepted during a run
MaxClock == 1          \* times the clock Date.now() advances during a run
MaxSteps == 6          \* events and clock advances during a run
MaxHistSteps == 5      \* the same, during a run whose frames are kept in log
MaxDeliveries == 5     \* messages the client adapter handles in one run
MaxAskSteps == 4       \* questions asked and messages handled in a run of questions
MaxSockets == 4        \* sockets the client adapter creates during a run
MaxConnSteps == 9      \* calls and socket events of a run of connects
MaxLiveSteps == 6      \* events of a run in which the timers and the close
                       \* events that are due still happen after the last one

\* ------------------------------------------------------- program constants
OPEN == 1              \* readyState of an open WebSocket
CLOSING == 2           \* readyState after terminate() or a close frame
CLOSED == 3            \* readyState once the close event has been emitted
NOSOCKET == 0          \* the connection has not been accepted yet
CONNECTING == 0        \* readyState of a client socket before its open event
MAX_RECONNECT_ATTEMPTS == 3
NORMAL == 1000         \* close code: normal closure
GOING_AWAY == 1001     \* close code: going away
NO_STATUS == 1005      \* close code: close frame without a status code
ABNORMAL == 1006       \* close code: no close frame was received

Conns == 1..NumConns
Undefined == "undefined"      \* a field the JSON message does not carry
Null == "null"
Falsy(v) == v \in {Undefined, Null, ""}
Or(v, d) == IF Falsy(v) THEN d ELSE v          \* JavaScript's  v || d

\* The fields of the messages the connections send.
RegisterInputs == { <<"a", Undefined>>, <<"b", "user">>, <<Undefined, "helper">> }
StatusInputs == { <<"busy", "t1">>, <<Undefined, Undefined>> }
ChatInputs == { <<Undefined, "hi">>, <<"x", "hi">> }
DiscoveryInputs == { <<Undefined, "claiming", "src/auth/">>,
                     <<Undefined, "leaving", "bye">>,
                     <<"x", "claiming", "src/auth/">> }
FrameCodes == {NORMAL, GOING_AWAY, NO_STATUS}  \* codes a close frame can carry
CloseCodes == FrameCodes \cup {ABNORMAL}
Agents == {"a", "b"}          \* the names the adapter holds a connection for
QIds == {"a1"}                \* question ids, crypto.randomBytes(4) in hex
AskIds == {"a1", "b2"}        \* the ids the questions of a run are given
JoinInputs == { <<"a", Undefined>>, <<"a", "user">> }   \* name, type of chatroom_join
MAX_MESSAGES == 100           \* the length the buffer is cut back to

VARIABLES
    readyState,   \* ws.readyState of every connection
    closeCode,    \* the code the close event of the connection will carry
    clients,      \* the Map ws -> info, in insertion order
    clientInfo,   \* the handler closure's clientInfo: name and type
    now,          \* Date.now()
    sent,         \* the frames the last event made the broker send, in order
    last,         \* the last event the broker processed
    terminated,   \* connections on which the broker called ws.terminate()
    missed,       \* heartbeat ticks that visited the record since its last pong
    stale,        \* heartbeat ticks that visited the record since its last pong or register
    announced,    \* "no", "yes": announced leaving; "reset": registered again after that
    steps,
    recording,    \* whether the frames put on the wire are kept in log
    log,          \* the frames the broker has sent since the start, in order
    messages,     \* the client adapter's shared message buffer
    lastWhoResponse,   \* conn.lastWhoResponse of every agent of the adapter
    pendingQuestions,  \* the keys of conn.pendingQuestions of every agent
    resolved,     \* the results the ask promises were resolved with, in order
    delivered,    \* the last message the adapter handled, and on whose socket
    due,          \* "yes": the snapshot changed since the last participants
                  \* tick; "no": it did not; "off": not followed in this run
    connections,  \* the adapter's Map name -> conn: ws, type, connected, registered
    sockets,      \* the WebSockets the adapter has created, in order of creation
    ensuring,     \* the ensureConnected call of every agent: where it stands
    event         \* the last call or socket event the adapter processed

vars == <<readyState, closeCode, clients, clientInfo, now, sent, last,
          terminated, missed, stale, announced, steps, recording, log, messages,
          lastWhoResponse, pendingQuestions, resolved, delivered, due,
          connections, sockets, ensuring, event>>
clientVars == <<connections, sockets, ensuring, event>>
adapterVars == <<messages, lastWhoResponse, pendingQuestions, resolved, delivered,
                 connections, sockets, ensuring, event>>
brokerVars == <<readyState, closeCode, clients, clientInfo, now, sent, last,
                terminated, missed, stale, announced, recording, log, due>>

\* ------------------------------------------------------------ the registry
Has(m, ws) == \E i \in 1..Len(m) : m[i].ws = ws
Index(m, ws) == CHOOSE i \in 1..Len(m) : m[i].ws = ws
Get(m, ws) == m[Index(m, ws)].info
MapSet(m, ws, info) ==
    IF Has(m, ws) THEN [m EXCEPT ![Index(m, ws)].info = info]
    ELSE Append(m, [ws |-> ws, info |-> info])
MapDelete(m, ws) == SelectSeq(m, LAMBDA e : e.ws # ws)
Keys(m) == {m[i].ws : i \in 1..Len(m)}

NoInfo == [name |-> Undefined, type |-> Undefined, alive |-> FALSE, joinedAt |-> 0,
           status |-> Undefined, task |-> Undefined, leaving |-> FALSE]

\* ------------------------------------------------------------ the messages
Msg(type) ==
    [type |-> type, from |-> Undefined, agentType |-> Undefined,
     category |-> Undefined, text |-> Undefined, name |-> Undefined,
     reason |-> Undefined, duration |-> 0, timestamp |-> 0,
     participants |-> <<>>, clients |-> <<>>]

\* text `${name} joined`
JoinedMsg(name, ts) ==
    [Msg("system") EXCEPT !.name = name, !.reason = "joined", !.timestamp = ts]
\* text `${name} ${exitReason} (was here ${duration}s)`
LeftMsg(name, exitReason, duration, ts) ==
    [Msg("system") EXCEPT !.name = name, !.reason = exitReason,
                          !.duration = duration, !.timestamp = ts]

\* broadcast without the readyState test
broadcastAnyState(m, rs, message) ==
    [i \in 1..Len(m) |-> [to |-> m[i].ws, msg |-> message]]

\* broadcast over wss.clients, every open socket, instead of the registry
broadcastWss(m, rs, message) ==
    LET open == SelectSeq([c \in 1..Len(rs) |-> c], LAMBDA c : rs[c] = OPEN)
    IN  [i \in 1..Len(open) |-> [to |-> open[i], msg |-> message]]

\* broadcast whose loop ends at the first key that is not open
broadcastStopsAtClosed(m, rs, message) ==
    LET closed == {i \in 1..Len(m) : rs[m[i].ws] # OPEN}
        n == IF closed = {} THEN Len(m)
             ELSE (CHOOSE i \in closed : \A j \in closed : i <= j) - 1
    IN  [i \in 1..n |-> [to |-> m[i].ws, msg |-> message]]

\* broadcast(wss, clients, message): one send per key whose readyState is 1
broadcast(m, rs, message) ==
    LET open == SelectSeq(m, LAMBDA e : rs[e.ws] = OPEN)
    IN  [i \in 1..Len(open) |-> [to |-> open[i].ws, msg |-> message]]

\* the snapshot with the status every record starts with
participantsOfIdle(m) ==
    [i \in 1..Len(m) |->
        [name |-> m[i].info.name,
         type |-> m[i].info.type,
         status |-> IF m[i].info.type = "user" THEN "observer" ELSE "idle",
         task |-> Or(m[i].info.task, Null),
         joinedAt |-> m[i].info.joinedAt]]

participantsOf(m) ==
    [i \in 1..Len(m) |->
        [name |-> m[i].info.name,
         type |-> m[i].info.type,
         status |-> IF m[i].info.type = "user" THEN "observer"
                    ELSE Or(m[i].info.status, "idle"),
         task |-> Or(m[i].info.task, Null),
         joinedAt |-> m[i].info.joinedAt]]

broadcastParticipants(m, rs, ts) ==
    broadcast(m, rs, [Msg("participants_update") EXCEPT
                         !.participants = participantsOf(m), !.timestamp = ts])

\* The event a handler or a timer callback has just processed: the connection
\* it belongs to, whether that connection had a record, the record the handler
\* wrote or removed, the close code and the exit reason the close handler logs,
\* the connections a heartbeat terminated and pinged, the from, category and
\* text fields of the message received, and whether the participants timer
\* called broadcastParticipants.
Event(op, ws) ==
    [op |-> op, ws |-> ws, had |-> FALSE, info |-> NoInfo, code |-> 0,
     exitReason |-> Undefined, killed |-> {}, pinged |-> {}, text |-> Undefined,
     from |-> Undefined, category |-> Undefined, called |-> FALSE]

\* ------------------------------------------------------------------- Init
\* The broker at the end of createServer.
BrokerInit ==
    /\ readyState = [c \in Conns |-> NOSOCKET]
    /\ closeCode = [c \in Conns |-> ABNORMAL]
    /\ clients = <<>>
    /\ clientInfo = [c \in Conns |-> [name |-> "unknown", type |-> "unknown"]]
    /\ now = 0
    /\ sent = <<>>
    /\ last = Event("init", 0)
    /\ terminated = {}
    /\ missed = [c \in Conns |-> 0]
    /\ stale = [c \in Conns |-> 0]
    /\ announced = [c \in Conns |-> "no"]
    /\ steps = 0

\* A name connections has no entry for, and the entry getConnection creates.
NoConn == [has |-> FALSE, ws |-> 0, type |-> "agent", connected |-> FALSE,
           registered |-> FALSE]
NewConn == [NoConn EXCEPT !.has = TRUE]

\* No ensureConnected call is running.
NotEnsuring == [pc |-> "idle", attempt |-> 0, ws |-> 0, result |-> "none",
                connects |-> 0]

\* What event holds: the operation, the agent, the socket the event belongs
\* to, whether the call found the agent's socket open, and the id of the
\* question asked or timed out.
ClientEvent(op, name, ws) ==
    [op |-> op, name |-> name, ws |-> ws, wasOpen |-> FALSE, qId |-> Undefined]

\* new WebSocket(SERVER_URL) in connect: the socket is connecting, the
\* 5-second timer is armed, the promise connect returns is pending and no
\* frame has been sent.
NewSocket(name) ==
    [name |-> name, readyState |-> CONNECTING, timer |-> TRUE,
     promise |-> "pending", frames |-> <<>>]

\* The socket of an agent that has joined, once its open handler has run.
JoinedSocket(name) ==
    [NewSocket(name) EXCEPT !.readyState = OPEN, !.timer = FALSE,
                            !.promise = "success", !.frames = <<"register">>]

\* The adapter after the agents of order have joined, one after the other.
JoinedAll(order) ==
    /\ sockets = [i \in 1..Len(order) |-> JoinedSocket(order[i])]
    /\ connections =
          [n \in Agents |->
              IF \E i \in 1..Len(order) : order[i] = n
              THEN [NewConn EXCEPT !.ws = CHOOSE i \in 1..Len(order) : order[i] = n,
                                   !.connected = TRUE, !.registered = TRUE]
              ELSE NoConn]
    /\ ensuring = [n \in Agents |-> NotEnsuring]
    /\ event = ClientEvent("init", Undefined, 0)

\* const connections = new Map(), and no socket yet
ClientIdle ==
    /\ connections = [n \in Agents |-> NoConn]
    /\ sockets = <<>>
    /\ ensuring = [n \in Agents |-> NotEnsuring]
    /\ event = ClientEvent("init", Undefined, 0)

\* let messages = [], and getConnection's fresh entry for every agent
AdapterIdle ==
    /\ messages = <<>>
    /\ lastWhoResponse = [n \in Agents |-> [set |-> FALSE, clients |-> <<>>]]
    /\ pendingQuestions = [n \in Agents |-> {}]
    /\ resolved = <<>>
    /\ delivered = [name |-> Undefined, msg |-> Msg("none"), isDupe |-> FALSE]
    /\ ClientIdle

Init ==
    /\ BrokerInit
    /\ recording = FALSE
    /\ log = <<>>
    /\ AdapterIdle
    /\ due = "off"

\* The same broker, with every frame it sends kept in log.
InitHist ==
    /\ BrokerInit
    /\ recording = TRUE
    /\ log = <<>>
    /\ AdapterIdle
    /\ due = "off"

\* The same broker, in a run where the participants timer keeps firing and
\* the socket the heartbeat destroyed emits its close event.
InitLive ==
    /\ BrokerInit
    /\ recording = FALSE
    /\ log = <<>>
    /\ AdapterIdle
    /\ due = "no"

\* client.send(payload), ws.send(...): the frames of the event go on the wire;
\* the client adapter's buffer is not the broker's to change.
Record ==
    /\ log' = IF recording THEN log \o sent' ELSE log
    /\ due' = IF due = "off" THEN "off"
              ELSE IF last'.op = "participants" THEN "no"
              ELSE IF \/ participantsOf(clients') # participantsOf(clients)
                      \/ Keys(clients') # Keys(clients)
                   THEN "yes"
              ELSE due
    /\ UNCHANGED recording
    /\ UNCHANGED adapterVars

Budget ==
    IF due # "off" THEN MaxLiveSteps
    ELSE IF recording THEN MaxHistSteps
    ELSE MaxSteps

Step ==
    /\ steps < Budget
    /\ steps' = steps + 1

\* setInterval keeps the participants timer firing: the tick that is due
\* happens even after the last event of the run.
TimerStep ==
    /\ steps < Budget \/ due = "yes"
    /\ steps' = steps + 1

\* ws.terminate() destroys the socket, which then emits 'close': that close
\* event happens even after the last event of the run.
CloseStep(c) ==
    /\ steps < Budget \/ (due # "off" /\ c \in terminated)
    /\ steps' = steps + 1

\* The clock advances between events, half a second at a time.
Tick ==
    /\ now < MaxClock * 500
    /\ now' = now + 500
    /\ Step
    /\ UNCHANGED <<readyState, closeCode, clients, clientInfo, sent, last,
                   terminated, missed, stale, announced, log, recording, due>>
    /\ UNCHANGED adapterVars

\* wss.on('connection'): a placeholder clientInfo, no record in the registry
OnConnection(c) ==
    /\ Step
    /\ readyState[c] = NOSOCKET
    /\ \A d \in Conns : d < c => readyState[d] # NOSOCKET
    /\ readyState' = [readyState EXCEPT ![c] = OPEN]
    /\ clientInfo' = [clientInfo EXCEPT ![c] = [name |-> "unknown", type |-> "unknown"]]
    /\ sent' = <<>>
    /\ last' = Event("connection", c)
    /\ UNCHANGED <<closeCode, clients, now, terminated, missed, stale, announced>>
    /\ Record

\* register that sends the snapshot to the new member before the notice goes
\* to the registry
OnRegisterGreetsFirst(c, name, agentType) ==
    /\ Step
    /\ readyState[c] = OPEN
    /\ LET info == [name |-> name, type |-> Or(agentType, "agent"), alive |-> TRUE,
                    joinedAt |-> now, status |-> "idle", task |-> Null,
                    leaving |-> FALSE]
           m == MapSet(clients, c, info)
           snapshots == broadcastParticipants(m, readyState, now)
       IN  /\ clients' = m
           /\ clientInfo' = [clientInfo EXCEPT ![c] = [name |-> info.name, type |-> info.type]]
           /\ sent' = SelectSeq(snapshots, LAMBDA f : f.to = c)
                      \o broadcast(m, readyState, JoinedMsg(info.name, now))
                      \o SelectSeq(snapshots, LAMBDA f : f.to # c)
           /\ last' = [Event("register", c) EXCEPT !.had = Has(clients, c), !.info = info]
    /\ stale' = [stale EXCEPT ![c] = 0]
    /\ announced' = [announced EXCEPT ![c] = IF @ = "no" THEN "no" ELSE "reset"]
    /\ UNCHANGED <<readyState, closeCode, now, terminated, missed>>
    /\ Record

\* register that updates the name and type of a record the connection
\* already has and keeps its other fields
OnRegisterKeepsFields(c, name, agentType) ==
    /\ Step
    /\ readyState[c] = OPEN
    /\ LET fresh == [name |-> name, type |-> Or(agentType, "agent"), alive |-> TRUE,
                     joinedAt |-> now, status |-> "idle", task |-> Null,
                     leaving |-> FALSE]
           info == IF Has(clients, c)
                   THEN [Get(clients, c) EXCEPT !.name = fresh.name, !.type = fresh.type]
                   ELSE fresh
           m == MapSet(clients, c, info)
       IN  /\ clients' = m
           /\ clientInfo' = [clientInfo EXCEPT ![c] = [name |-> info.name, type |-> info.type]]
           /\ sent' = broadcast(m, readyState, JoinedMsg(info.name, now))
                      \o broadcastParticipants(m, readyState, now)
           /\ last' = [Event("register", c) EXCEPT !.had = Has(clients, c), !.info = info]
    /\ stale' = [stale EXCEPT ![c] = 0]
    /\ announced' = [announced EXCEPT ![c] = IF @ = "no" THEN "no" ELSE "reset"]
    /\ UNCHANGED <<readyState, closeCode, now, terminated, missed>>
    /\ Record

\* register that sends the joined notice before it writes the record
OnRegisterNoticeFirst(c, name, agentType) ==
    /\ Step
    /\ readyState[c] = OPEN
    /\ LET info == [name |-> name, type |-> Or(agentType, "agent"), alive |-> TRUE,
                    joinedAt |-> now, status |-> "idle", task |-> Null,
                    leaving |-> FALSE]
           m == MapSet(clients, c, info)
       IN  /\ clients' = m
           /\ clientInfo' = [clientInfo EXCEPT ![c] = [name |-> info.name, type |-> info.type]]
           /\ sent' = broadcast(clients, readyState, JoinedMsg(info.name, now))
                      \o broadcastParticipants(m, readyState, now)
           /\ last' = [Event("register", c) EXCEPT !.had = Has(clients, c), !.info = info]
    /\ stale' = [stale EXCEPT ![c] = 0]
    /\ announced' = [announced EXCEPT ![c] = IF @ = "no" THEN "no" ELSE "reset"]
    /\ UNCHANGED <<readyState, closeCode, now, terminated, missed>>
    /\ Record

\* register that stays silent when the connection already has a record
OnRegisterQuietRejoin(c, name, agentType) ==
    /\ Step
    /\ readyState[c] = OPEN
    /\ LET info == [name |-> name, type |-> Or(agentType, "agent"), alive |-> TRUE,
                    joinedAt |-> now, status |-> "idle", task |-> Null,
                    leaving |-> FALSE]
           m == MapSet(clients, c, info)
       IN  /\ clients' = m
           /\ clientInfo' = [clientInfo EXCEPT ![c] = [name |-> info.name, type |-> info.type]]
           /\ sent' = IF Has(clients, c) THEN <<>>
                      ELSE broadcast(m, readyState, JoinedMsg(info.name, now))
                           \o broadcastParticipants(m, readyState, now)
           /\ last' = [Event("register", c) EXCEPT !.had = Has(clients, c), !.info = info]
    /\ stale' = [stale EXCEPT ![c] = 0]
    /\ announced' = [announced EXCEPT ![c] = IF @ = "no" THEN "no" ELSE "reset"]
    /\ UNCHANGED <<readyState, closeCode, now, terminated, missed>>
    /\ Record

\* message handler, type 'register'
OnRegister(c, name, agentType) ==
    /\ Step
    /\ readyState[c] = OPEN
    /\ LET info == [name |-> name, type |-> Or(agentType, "agent"), alive |-> TRUE,
                    joinedAt |-> now, status |-> "idle", task |-> Null,
                    leaving |-> FALSE]
           m == MapSet(clients, c, info)
       IN  /\ clients' = m
           /\ clientInfo' = [clientInfo EXCEPT ![c] = [name |-> info.name, type |-> info.type]]
           /\ sent' = broadcast(m, readyState, JoinedMsg(info.name, now))
                      \o broadcastParticipants(m, readyState, now)
           /\ last' = [Event("register", c) EXCEPT !.had = Has(clients, c), !.info = info]
    /\ stale' = [stale EXCEPT ![c] = 0]
    /\ announced' = [announced EXCEPT ![c] = IF @ = "no" THEN "no" ELSE "reset"]
    /\ UNCHANGED <<readyState, closeCode, now, terminated, missed>>
    /\ Record

\* status_update that also counts as a sign of life
OnStatusUpdateTouchesAlive(c, status, task) ==
    /\ Step
    /\ readyState[c] = OPEN
    /\ IF Has(clients, c)
       THEN LET info == [Get(clients, c) EXCEPT !.status = Or(status, "idle"),
                                                 !.task = Or(task, Null),
                                                 !.alive = TRUE]
                m == MapSet(clients, c, info)
            IN  /\ clients' = m
                /\ sent' = broadcastParticipants(m, readyState, now)
       ELSE /\ clients' = clients
            /\ sent' = <<>>
    /\ last' = [Event("status_update", c) EXCEPT !.had = Has(clients, c)]
    /\ UNCHANGED <<readyState, closeCode, clientInfo, now, terminated, missed,
                   stale, announced>>
    /\ Record

\* message handler, type 'status_update'
OnStatusUpdate(c, status, task) ==
    /\ Step
    /\ readyState[c] = OPEN
    /\ IF Has(clients, c)
       THEN LET info == [Get(clients, c) EXCEPT !.status = Or(status, "idle"),
                                                 !.task = Or(task, Null)]
                m == MapSet(clients, c, info)
            IN  /\ clients' = m
                /\ sent' = broadcastParticipants(m, readyState, now)
       ELSE /\ clients' = clients
            /\ sent' = <<>>
    /\ last' = [Event("status_update", c) EXCEPT !.had = Has(clients, c)]
    /\ UNCHANGED <<readyState, closeCode, clientInfo, now, terminated, missed,
                   stale, announced>>
    /\ Record

\* chat relayed with the timestamp field of the message, which the sender
\* left at 0
OnChatSenderStamp(c, from, text) ==
    /\ Step
    /\ readyState[c] = OPEN
    /\ sent' = broadcast(clients, readyState,
                  [Msg("chat") EXCEPT !.from = Or(from, clientInfo[c].name),
                                      !.agentType = clientInfo[c].type,
                                      !.text = text,
                                      !.timestamp = 0])
    /\ last' = [Event("chat", c) EXCEPT !.had = Has(clients, c), !.text = text,
                                        !.from = from]
    /\ UNCHANGED <<readyState, closeCode, clients, clientInfo, now, terminated,
                   missed, stale, announced>>
    /\ Record

\* message handler, type 'chat'
OnChat(c, from, text) ==
    /\ Step
    /\ readyState[c] = OPEN
    /\ sent' = broadcast(clients, readyState,
                  [Msg("chat") EXCEPT !.from = Or(from, clientInfo[c].name),
                                      !.agentType = clientInfo[c].type,
                                      !.text = text,
                                      !.timestamp = now])
    /\ last' = [Event("chat", c) EXCEPT !.had = Has(clients, c), !.text = text,
                                        !.from = from]
    /\ UNCHANGED <<readyState, closeCode, clients, clientInfo, now, terminated,
                   missed, stale, announced>>
    /\ Record

\* discovery that counts as a sign of life
OnDiscoveryRevives(c, from, category, text) ==
    /\ Step
    /\ readyState[c] = OPEN
    /\ LET m == IF Has(clients, c)
                THEN MapSet(clients, c,
                        [Get(clients, c) EXCEPT
                            !.alive = TRUE,
                            !.leaving = IF category = "leaving" THEN TRUE ELSE @])
                ELSE clients
       IN  /\ clients' = m
           /\ sent' = broadcast(m, readyState,
                         [Msg("discovery") EXCEPT !.from = Or(from, clientInfo[c].name),
                                                  !.agentType = clientInfo[c].type,
                                                  !.category = category,
                                                  !.text = text,
                                                  !.timestamp = now])
    /\ last' = [Event("discovery", c) EXCEPT !.had = Has(clients, c), !.text = text,
                                             !.from = from, !.category = category]
    /\ announced' = [announced EXCEPT ![c] =
                        IF category = "leaving" /\ Has(clients, c) THEN "yes" ELSE @]
    /\ UNCHANGED <<readyState, closeCode, clientInfo, now, terminated, missed, stale>>
    /\ Record

\* message handler, type 'discovery'
OnDiscovery(c, from, category, text) ==
    /\ Step
    /\ readyState[c] = OPEN
    /\ LET m == IF category = "leaving" /\ Has(clients, c)
                THEN MapSet(clients, c, [Get(clients, c) EXCEPT !.leaving = TRUE])
                ELSE clients
       IN  /\ clients' = m
           /\ sent' = broadcast(m, readyState,
                         [Msg("discovery") EXCEPT !.from = Or(from, clientInfo[c].name),
                                                  !.agentType = clientInfo[c].type,
                                                  !.category = category,
                                                  !.text = text,
                                                  !.timestamp = now])
    /\ last' = [Event("discovery", c) EXCEPT !.had = Has(clients, c), !.text = text,
                                             !.from = from, !.category = category]
    /\ announced' = [announced EXCEPT ![c] =
                        IF category = "leaving" /\ Has(clients, c) THEN "yes" ELSE @]
    /\ UNCHANGED <<readyState, closeCode, clientInfo, now, terminated, missed, stale>>
    /\ Record

\* leaving that is announced to the registry
OnLeavingAnnounces(c) ==
    /\ Step
    /\ readyState[c] = OPEN
    /\ clients' = IF Has(clients, c)
                  THEN MapSet(clients, c, [Get(clients, c) EXCEPT !.leaving = TRUE])
                  ELSE clients
    /\ sent' = broadcast(clients, readyState, JoinedMsg(clientInfo[c].name, now))
    /\ last' = [Event("leaving", c) EXCEPT !.had = Has(clients, c)]
    /\ announced' = [announced EXCEPT ![c] = IF Has(clients, c) THEN "yes" ELSE @]
    /\ UNCHANGED <<readyState, closeCode, clientInfo, now, terminated, missed, stale>>
    /\ Record

\* message handler, type 'leaving'
OnLeaving(c) ==
    /\ Step
    /\ readyState[c] = OPEN
    /\ clients' = IF Has(clients, c)
                  THEN MapSet(clients, c, [Get(clients, c) EXCEPT !.leaving = TRUE])
                  ELSE clients
    /\ sent' = <<>>
    /\ last' = [Event("leaving", c) EXCEPT !.had = Has(clients, c)]
    /\ announced' = [announced EXCEPT ![c] = IF Has(clients, c) THEN "yes" ELSE @]
    /\ UNCHANGED <<readyState, closeCode, clientInfo, now, terminated, missed, stale>>
    /\ Record

whoList(m) ==
    [i \in 1..Len(m) |-> [name |-> m[i].info.name, type |-> m[i].info.type,
                          joinedAt |-> m[i].info.joinedAt]]

\* who answered with the records of the other connections only
OnWhoOthers(c) ==
    /\ Step
    /\ readyState[c] = OPEN
    /\ sent' = << [to |-> c,
                   msg |-> [Msg("who_response") EXCEPT
                               !.clients = whoList(MapDelete(clients, c)),
                               !.timestamp = now]] >>
    /\ last' = [Event("who", c) EXCEPT !.had = Has(clients, c)]
    /\ UNCHANGED <<readyState, closeCode, clients, clientInfo, now, terminated,
                   missed, stale, announced>>
    /\ Record

\* who answered with a broadcast
OnWhoBroadcast(c) ==
    /\ Step
    /\ readyState[c] = OPEN
    /\ sent' = broadcast(clients, readyState,
                  [Msg("who_response") EXCEPT !.clients = whoList(clients),
                                              !.timestamp = now])
    /\ last' = [Event("who", c) EXCEPT !.had = Has(clients, c)]
    /\ UNCHANGED <<readyState, closeCode, clients, clientInfo, now, terminated,
                   missed, stale, announced>>
    /\ Record

\* message handler, type 'who'
OnWho(c) ==
    /\ Step
    /\ readyState[c] = OPEN
    /\ sent' = << [to |-> c,
                   msg |-> [Msg("who_response") EXCEPT !.clients = whoList(clients),
                                                       !.timestamp = now]] >>
    /\ last' = [Event("who", c) EXCEPT !.had = Has(clients, c)]
    /\ UNCHANGED <<readyState, closeCode, clients, clientInfo, now, terminated,
                   missed, stale, announced>>
    /\ Record

\* error path that removes the record of the connection
OnMalformedDropsRecord(c) ==
    /\ Step
    /\ readyState[c] = OPEN
    /\ clients' = MapDelete(clients, c)
    /\ sent' = <<>>
    /\ last' = [Event("malformed", c) EXCEPT !.had = Has(clients, c)]
    /\ UNCHANGED <<readyState, closeCode, clientInfo, now, terminated,
                   missed, stale, announced>>
    /\ Record

\* message handler, JSON.parse throws: the catch logs and drops the payload
OnMalformed(c) ==
    /\ Step
    /\ readyState[c] = OPEN
    /\ sent' = <<>>
    /\ last' = [Event("malformed", c) EXCEPT !.had = Has(clients, c)]
    /\ UNCHANGED <<readyState, closeCode, clients, clientInfo, now, terminated,
                   missed, stale, announced>>
    /\ Record

\* ws.on('pong')
OnPong(c) ==
    /\ Step
    /\ readyState[c] = OPEN
    /\ clients' = IF Has(clients, c)
                  THEN MapSet(clients, c, [Get(clients, c) EXCEPT !.alive = TRUE])
                  ELSE clients
    /\ missed' = [missed EXCEPT ![c] = IF Has(clients, c) THEN 0 ELSE @]
    /\ stale' = [stale EXCEPT ![c] = IF Has(clients, c) THEN 0 ELSE @]
    /\ sent' = <<>>
    /\ last' = [Event("pong", c) EXCEPT !.had = Has(clients, c)]
    /\ UNCHANGED <<readyState, closeCode, clientInfo, now, terminated, announced>>
    /\ Record

\* heartbeat over every open socket: one without a record counts as not alive
HeartbeatOverSockets ==
    /\ Step
    /\ LET dead == {c \in Keys(clients) : ~Get(clients, c).alive}
                   \cup {c \in Conns : readyState[c] = OPEN /\ ~Has(clients, c)}
           live == Keys(clients) \ dead
       IN  /\ readyState' = [c \in Conns |->
                                IF c \in dead /\ readyState[c] \in {OPEN, CLOSING}
                                THEN CLOSING ELSE readyState[c]]
           /\ clients' = [i \in 1..Len(clients) |->
                             [clients[i] EXCEPT !.info.alive = FALSE]]
           /\ terminated' = terminated \cup dead
           /\ last' = [Event("heartbeat", 0) EXCEPT !.killed = dead, !.pinged = live]
    /\ missed' = [c \in Conns |-> IF Has(clients, c) THEN missed[c] + 1 ELSE missed[c]]
    /\ stale' = [c \in Conns |-> IF Has(clients, c) THEN stale[c] + 1 ELSE stale[c]]
    /\ sent' = <<>>
    /\ UNCHANGED <<closeCode, clientInfo, now, announced>>
    /\ Record

\* heartbeat that pings without clearing the liveness flag
HeartbeatKeepsAlive ==
    /\ Step
    /\ LET dead == {c \in Keys(clients) : ~Get(clients, c).alive}
           live == Keys(clients) \ dead
       IN  /\ readyState' = [c \in Conns |->
                                IF c \in dead /\ readyState[c] \in {OPEN, CLOSING}
                                THEN CLOSING ELSE readyState[c]]
           /\ clients' = clients
           /\ terminated' = terminated \cup dead
           /\ last' = [Event("heartbeat", 0) EXCEPT !.killed = dead, !.pinged = live]
    /\ missed' = [c \in Conns |-> IF Has(clients, c) THEN missed[c] + 1 ELSE missed[c]]
    /\ stale' = [c \in Conns |-> IF Has(clients, c) THEN stale[c] + 1 ELSE stale[c]]
    /\ sent' = <<>>
    /\ UNCHANGED <<closeCode, clientInfo, now, announced>>
    /\ Record

\* heartbeat that terminates every record, alive or not
HeartbeatKillsAll ==
    /\ Step
    /\ LET dead == Keys(clients)
           live == {}
       IN  /\ readyState' = [c \in Conns |->
                                IF c \in dead /\ readyState[c] \in {OPEN, CLOSING}
                                THEN CLOSING ELSE readyState[c]]
           /\ clients' = [i \in 1..Len(clients) |->
                             [clients[i] EXCEPT !.info.alive = FALSE]]
           /\ terminated' = terminated \cup dead
           /\ last' = [Event("heartbeat", 0) EXCEPT !.killed = dead, !.pinged = live]
    /\ missed' = [c \in Conns |-> IF Has(clients, c) THEN missed[c] + 1 ELSE missed[c]]
    /\ stale' = [c \in Conns |-> IF Has(clients, c) THEN stale[c] + 1 ELSE stale[c]]
    /\ sent' = <<>>
    /\ UNCHANGED <<closeCode, clientInfo, now, announced>>
    /\ Record

\* heartbeatInterval callback: terminate the records found not alive, ping the others
Heartbeat ==
    /\ Step
    /\ LET dead == {c \in Keys(clients) : ~Get(clients, c).alive}
           live == Keys(clients) \ dead
       IN  /\ readyState' = [c \in Conns |->
                                IF c \in dead /\ readyState[c] \in {OPEN, CLOSING}
                                THEN CLOSING ELSE readyState[c]]
           /\ clients' = [i \in 1..Len(clients) |->
                             [clients[i] EXCEPT !.info.alive = FALSE]]
           /\ terminated' = terminated \cup dead
           /\ last' = [Event("heartbeat", 0) EXCEPT !.killed = dead, !.pinged = live]
    /\ missed' = [c \in Conns |-> IF Has(clients, c) THEN missed[c] + 1 ELSE missed[c]]
    /\ stale' = [c \in Conns |-> IF Has(clients, c) THEN stale[c] + 1 ELSE stale[c]]
    /\ sent' = <<>>
    /\ UNCHANGED <<closeCode, clientInfo, now, announced>>
    /\ Record

\* participants timer with the test of the registry size inverted
ParticipantTickWhenEmpty ==
    /\ Step
    /\ sent' = IF Len(clients) = 0 THEN broadcastParticipants(clients, readyState, now)
               ELSE <<>>
    /\ last' = [Event("participants", 0) EXCEPT !.called = (Len(clients) = 0)]
    /\ UNCHANGED <<readyState, closeCode, clients, clientInfo, now, terminated,
                   missed, stale, announced>>
    /\ Record

\* participants timer that stops at the first key of the registry
ParticipantTickOneTarget ==
    /\ TimerStep
    /\ sent' = IF Len(clients) > 0
               THEN broadcastParticipants(SubSeq(clients, 1, 1), readyState, now)
               ELSE <<>>
    /\ last' = [Event("participants", 0) EXCEPT !.called = (Len(clients) > 0)]
    /\ UNCHANGED <<readyState, closeCode, clients, clientInfo, now, terminated,
                   missed, stale, announced>>
    /\ Record

\* participantInterval callback
ParticipantTick ==
    /\ TimerStep
    /\ sent' = IF Len(clients) > 0 THEN broadcastParticipants(clients, readyState, now)
               ELSE <<>>
    /\ last' = [Event("participants", 0) EXCEPT !.called = (Len(clients) > 0)]
    /\ UNCHANGED <<readyState, closeCode, clients, clientInfo, now, terminated,
                   missed, stale, announced>>
    /\ Record

\* The peer's close frame arrives: the socket is closing, and the close event
\* that follows carries the frame's code.
RecvCloseFrame(c, code) ==
    /\ Step
    /\ readyState[c] = OPEN
    /\ readyState' = [readyState EXCEPT ![c] = CLOSING]
    /\ closeCode' = [closeCode EXCEPT ![c] = code]
    /\ sent' = <<>>
    /\ last' = [Event("closeframe", c) EXCEPT !.had = Has(clients, c), !.code = code]
    /\ UNCHANGED <<clients, clientInfo, now, terminated, missed, stale, announced>>
    /\ Record

\* Math.round(ms / 1000) for ms >= 0
RoundSeconds(ms) == (ms + 500) \div 1000

\* the liveness test placed before the test of code 1006
exitReasonAliveFirst(code, info) ==
    IF code = NORMAL \/ info.leaving THEN "left normally"
    ELSE IF code = GOING_AWAY THEN "going away"
    ELSE IF ~info.alive THEN "heartbeat timeout"
    ELSE IF code = ABNORMAL THEN "connection lost"
    ELSE "disconnected"

\* the leaving flag ignored
exitReasonNoLeaving(code, info) ==
    IF code = NORMAL THEN "left normally"
    ELSE IF code = GOING_AWAY THEN "going away"
    ELSE IF code = ABNORMAL THEN "connection lost"
    ELSE IF ~info.alive THEN "heartbeat timeout"
    ELSE "disconnected"

exitReasonOf(code, info) ==
    IF code = NORMAL \/ info.leaving THEN "left normally"
    ELSE IF code = GOING_AWAY THEN "going away"
    ELSE IF code = ABNORMAL THEN "connection lost"
    ELSE IF ~info.alive THEN "heartbeat timeout"
    ELSE "disconnected"

\* close handler that removes the record of a terminated connection silently
OnCloseSilentEviction(c) ==
    /\ CloseStep(c)
    /\ readyState[c] \in {OPEN, CLOSING}
    /\ readyState' = [readyState EXCEPT ![c] = CLOSED]
    /\ IF Has(clients, c)
       THEN LET info == Get(clients, c)
                duration == RoundSeconds(now - info.joinedAt)
                exitReason == exitReasonOf(closeCode[c], info)
                m == MapDelete(clients, c)
            IN  /\ clients' = m
                /\ sent' = IF c \in terminated THEN <<>>
                           ELSE broadcast(m, readyState', LeftMsg(info.name, exitReason, duration, now))
                                \o broadcastParticipants(m, readyState', now)
                /\ last' = [Event("close", c) EXCEPT !.had = TRUE, !.info = info,
                                                     !.code = closeCode[c],
                                                     !.exitReason = exitReason]
       ELSE /\ clients' = clients
            /\ sent' = <<>>
            /\ last' = [Event("close", c) EXCEPT !.code = closeCode[c]]
    /\ UNCHANGED <<closeCode, clientInfo, now, terminated, missed, stale, announced>>
    /\ Record

\* close handler that leaves the record in the registry
OnCloseKeepsRecord(c) ==
    /\ CloseStep(c)
    /\ readyState[c] \in {OPEN, CLOSING}
    /\ readyState' = [readyState EXCEPT ![c] = CLOSED]
    /\ IF Has(clients, c)
       THEN LET info == Get(clients, c)
                duration == RoundSeconds(now - info.joinedAt)
                exitReason == exitReasonOf(closeCode[c], info)
                m == clients
            IN  /\ clients' = m
                /\ sent' = broadcast(m, readyState', LeftMsg(info.name, exitReason, duration, now))
                           \o broadcastParticipants(m, readyState', now)
                /\ last' = [Event("close", c) EXCEPT !.had = TRUE, !.info = info,
                                                     !.code = closeCode[c],
                                                     !.exitReason = exitReason]
       ELSE /\ clients' = clients
            /\ sent' = <<>>
            /\ last' = [Event("close", c) EXCEPT !.code = closeCode[c]]
    /\ UNCHANGED <<closeCode, clientInfo, now, terminated, missed, stale, announced>>
    /\ Record

\* close handler that removes the record after the two broadcasts
OnCloseDeletesLast(c) ==
    /\ CloseStep(c)
    /\ readyState[c] \in {OPEN, CLOSING}
    /\ readyState' = [readyState EXCEPT ![c] = CLOSED]
    /\ IF Has(clients, c)
       THEN LET info == Get(clients, c)
                duration == RoundSeconds(now - info.joinedAt)
                exitReason == exitReasonOf(closeCode[c], info)
                m == MapDelete(clients, c)
            IN  /\ clients' = m
                /\ sent' = broadcast(clients, readyState', LeftMsg(info.name, exitReason, duration, now))
                           \o broadcastParticipants(clients, readyState', now)
                /\ last' = [Event("close", c) EXCEPT !.had = TRUE, !.info = info,
                                                     !.code = closeCode[c],
                                                     !.exitReason = exitReason]
       ELSE /\ clients' = clients
            /\ sent' = <<>>
            /\ last' = [Event("close", c) EXCEPT !.code = closeCode[c]]
    /\ UNCHANGED <<closeCode, clientInfo, now, terminated, missed, stale, announced>>
    /\ Record

\* close handler that announces every close, registered or not
OnCloseAnnouncesUnknown(c) ==
    /\ CloseStep(c)
    /\ readyState[c] \in {OPEN, CLOSING}
    /\ readyState' = [readyState EXCEPT ![c] = CLOSED]
    /\ IF Has(clients, c)
       THEN LET info == Get(clients, c)
                duration == RoundSeconds(now - info.joinedAt)
                exitReason == exitReasonOf(closeCode[c], info)
                m == MapDelete(clients, c)
            IN  /\ clients' = m
                /\ sent' = broadcast(m, readyState', LeftMsg(info.name, exitReason, duration, now))
                           \o broadcastParticipants(m, readyState', now)
                /\ last' = [Event("close", c) EXCEPT !.had = TRUE, !.info = info,
                                                     !.code = closeCode[c],
                                                     !.exitReason = exitReason]
       ELSE /\ clients' = clients
            /\ sent' = broadcast(clients, readyState',
                                 LeftMsg(clientInfo[c].name, "disconnected", 0, now))
                       \o broadcastParticipants(clients, readyState', now)
            /\ last' = [Event("close", c) EXCEPT !.code = closeCode[c]]
    /\ UNCHANGED <<closeCode, clientInfo, now, terminated, missed, stale, announced>>
    /\ Record

\* ws.on('close'): the socket is gone, with or without a close frame
OnClose(c) ==
    /\ CloseStep(c)
    /\ readyState[c] \in {OPEN, CLOSING}
    /\ readyState' = [readyState EXCEPT ![c] = CLOSED]
    /\ IF Has(clients, c)
       THEN LET info == Get(clients, c)
                duration == RoundSeconds(now - info.joinedAt)
                exitReason == exitReasonOf(closeCode[c], info)
                m == MapDelete(clients, c)
            IN  /\ clients' = m
                /\ sent' = broadcast(m, readyState', LeftMsg(info.name, exitReason, duration, now))
                           \o broadcastParticipants(m, readyState', now)
                /\ last' = [Event("close", c) EXCEPT !.had = TRUE, !.info = info,
                                                     !.code = closeCode[c],
                                                     !.exitReason = exitReason]
       ELSE /\ clients' = clients
            /\ sent' = <<>>
            /\ last' = [Event("close", c) EXCEPT !.code = closeCode[c]]
    /\ UNCHANGED <<closeCode, clientInfo, now, terminated, missed, stale, announced>>
    /\ Record

Next ==
    \/ Tick
    \/ Heartbeat
    \/ ParticipantTick
    \/ \E c \in Conns : OnConnection(c)
    \/ \E c \in Conns, r \in RegisterInputs : OnRegister(c, r[1], r[2])
    \/ \E c \in Conns, u \in StatusInputs : OnStatusUpdate(c, u[1], u[2])
    \/ \E c \in Conns, m \in ChatInputs : OnChat(c, m[1], m[2])
    \/ \E c \in Conns, m \in DiscoveryInputs : OnDiscovery(c, m[1], m[2], m[3])
    \/ \E c \in Conns : OnLeaving(c)
    \/ \E c \in Conns : OnWho(c)
    \/ \E c \in Conns : OnMalformed(c)
    \/ \E c \in Conns : OnPong(c)
    \/ \E c \in Conns, code \in FrameCodes : RecvCloseFrame(c, code)
    \/ \E c \in Conns : OnClose(c)

Spec == Init /\ [][Next]_vars
SpecHist == InitHist /\ [][Next]_vars

\* setInterval fires the participants timer again and again, and a socket
\* destroyed by ws.terminate() emits its close event.
SpecLive ==
    /\ InitLive
    /\ [][Next]_vars
    /\ WF_vars(ParticipantTick)
    /\ \A c \in Conns : WF_vars(c \in terminated /\ OnClose(c))

\* ------------------------------------------------------ the client adapter
\* The messages a broker delivers to the adapter: chats that differ from the
\* first in the timestamp only, in the sender only and in the text only, a
\* discovery that carries the triple of the first chat, a notice, the answer
\* to question a1, and a who_response.
Chat(from, text, ts) ==
    [Msg("chat") EXCEPT !.from = from, !.agentType = "agent", !.text = text,
                        !.timestamp = ts]
AnswerText == "[A:a1] ok"
OtherAnswerText == "[A:b2] no"
TwoAnswersText == "[A:a1] ok [A:b2] no"
QuestionText(qId) == IF qId = "a1" THEN "[Q:a1] why" ELSE "[Q:b2] how"
Deliveries ==
    { Chat("a", "hi", 0), Chat("a", "hi", 500), Chat("b", "hi", 0),
      Chat("b", AnswerText, 0),
      [Chat("a", "hi", 0) EXCEPT !.type = "discovery", !.category = "found"],
      JoinedMsg("a", 0),
      [Msg("who_response") EXCEPT
          !.clients = <<[name |-> "a", type |-> "agent", joinedAt |-> 0]>>] }

\* m.text === msg.text. The text of a notice is rendered from its name,
\* reason and duration; no chat of Deliveries spells a notice.
TextEq(m, msg) ==
    IF m.type = "system" /\ msg.type = "system"
    THEN <<m.name, m.reason, m.duration>> = <<msg.name, msg.reason, msg.duration>>
    ELSE IF m.type = "system" \/ msg.type = "system" THEN FALSE
    ELSE m.text = msg.text

\* the test of messages.some(...)
SameTriple(m, msg) ==
    /\ m.timestamp = msg.timestamp
    /\ m.from = msg.from
    /\ TextEq(m, msg)

\* isDupe compared with the newest entry only
isDupeOfNewest(buf, msg) == Len(buf) > 0 /\ SameTriple(buf[Len(buf)], msg)

isDupe(buf, msg) == \E i \in 1..Len(buf) : SameTriple(buf[i], msg)

\* push without the shift
PushUnbounded(buf, msg) == Append(buf, msg)

\* messages.push(msg); if (messages.length > 100) messages.shift()
Push(buf, msg) ==
    LET b == Append(buf, msg)
    IN  IF Len(b) > MAX_MESSAGES THEN Tail(b) ELSE b

\* msg.text.match(/\[A:([a-f0-9]+)\]\s*(.*)/): the id of the first tag and the
\* rest of the line after it, if the text has a tag
Match(text) ==
    IF text = AnswerText THEN <<"a1", "ok">>
    ELSE IF text = OtherAnswerText THEN <<"b2", "no">>
    ELSE IF text = TwoAnswersText THEN <<"a1", "ok [A:b2] no">>
    ELSE <<>>

\* the ids of all the [A:...] tags the text contains
Tags(text) ==
    IF text = AnswerText THEN {"a1"}
    ELSE IF text = OtherAnswerText THEN {"b2"}
    ELSE IF text = TwoAnswersText THEN {"a1", "b2"}
    ELSE {}

\* The buffer of an adapter that has been running for a while: the chats it
\* received before the run starts, one short of the limit, oldest first.
Backlog == [k \in 1..(MAX_MESSAGES - 1) |-> Chat("b", "old", k - MAX_MESSAGES)]

\* Both agents have joined and the buffer is empty; a connected agent may
\* have asked a question that is not answered yet.
AdapterInit ==
    /\ BrokerInit
    /\ recording = FALSE
    /\ log = <<>>
    /\ messages = <<>>
    /\ lastWhoResponse = [n \in Agents |-> [set |-> FALSE, clients |-> <<>>]]
    /\ pendingQuestions \in [Agents -> SUBSET QIds]
    /\ resolved = <<>>
    /\ delivered = [name |-> Undefined, msg |-> Msg("none"), isDupe |-> FALSE]
    /\ due = "off"
    /\ JoinedAll(<<"a", "b">>)

AdapterStep ==
    /\ steps < MaxDeliveries
    /\ steps' = steps + 1

\* ws.on('message') of the socket of agent name, with the duplicate test dupe
HandleMessage(name, msg, dupe) ==
    /\ AdapterStep
    /\ delivered' = [name |-> name, msg |-> msg, isDupe |-> dupe]
    /\ IF msg.type = "who_response"
       THEN /\ lastWhoResponse' =
                  [lastWhoResponse EXCEPT ![name] = [set |-> TRUE, clients |-> msg.clients]]
            /\ UNCHANGED <<messages, pendingQuestions, resolved>>
       ELSE /\ messages' = IF dupe THEN messages ELSE Push(messages, msg)
            /\ IF /\ msg.type = "chat" /\ ~Falsy(msg.text) /\ msg.from # name
                  /\ Match(msg.text) # <<>>
                  /\ Match(msg.text)[1] \in pendingQuestions[name]
               THEN /\ pendingQuestions' =
                          [pendingQuestions EXCEPT ![name] = @ \ {Match(msg.text)[1]}]
                    /\ resolved' = Append(resolved,
                          [name |-> name, qId |-> Match(msg.text)[1],
                           success |-> TRUE, answer |-> Match(msg.text)[2]])
               ELSE UNCHANGED <<pendingQuestions, resolved>>
            /\ UNCHANGED lastWhoResponse
    /\ event' = ClientEvent("message", name, connections[name].ws)
    /\ UNCHANGED <<connections, sockets, ensuring>>
    /\ UNCHANGED brokerVars

\* the handler with a duplicate test that looks at the newest entry only
AdapterOnMessageNewestOnly(name, msg) ==
    HandleMessage(name, msg, isDupeOfNewest(messages, msg))

AdapterOnMessage(name, msg) ==
    HandleMessage(name, msg, isDupe(messages, msg))

\* JSON.parse throws: catch (e) {}
AdapterOnMalformed(name) ==
    /\ AdapterStep
    /\ delivered' = [name |-> name, msg |-> Msg("malformed"), isDupe |-> FALSE]
    /\ UNCHANGED <<messages, lastWhoResponse, pendingQuestions, resolved>>
    /\ event' = ClientEvent("message", name, connections[name].ws)
    /\ UNCHANGED <<connections, sockets, ensuring>>
    /\ UNCHANGED brokerVars

AdapterNext ==
    \/ \E name \in Agents, msg \in Deliveries : AdapterOnMessage(name, msg)
    \/ \E name \in Agents : AdapterOnMalformed(name)

AdapterSpec == AdapterInit /\ [][AdapterNext]_vars

\* The adapter after it has filled its buffer up to one entry short of the
\* limit: the same handler, in a run that starts with the backlog.
AdapterFullInit ==
    /\ BrokerInit
    /\ recording = FALSE
    /\ log = <<>>
    /\ messages = Backlog
    /\ lastWhoResponse = [n \in Agents |-> [set |-> FALSE, clients |-> <<>>]]
    /\ pendingQuestions = [n \in Agents |-> {}]
    /\ resolved = <<>>
    /\ delivered = [name |-> Undefined, msg |-> Msg("none"), isDupe |-> FALSE]
    /\ due = "off"
    /\ JoinedAll(<<"a", "b">>)

AdapterFullSpec == AdapterFullInit /\ [][AdapterNext]_vars

\* ------------------------------------------------------ chatroom_ask
\* The messages delivered while questions are pending: the answer to a1, the
\* answer to b2, the answer to a1 from agent a itself, a discovery that
\* carries the text of an answer, and a chat with the tags of both questions.
AskDeliveries ==
    { Chat("b", AnswerText, 0), Chat("b", OtherAnswerText, 0),
      Chat("a", AnswerText, 0),
      [Chat("b", OtherAnswerText, 0) EXCEPT !.type = "discovery", !.category = "found"],
      Chat("b", TwoAnswersText, 0) }

\* The callers of chatroom_ask: the agents, and a call without a name.
AskNames == Agents \cup {Undefined}

\* Agent a has joined; agent b has joined or has not.
AskInit ==
    /\ BrokerInit
    /\ recording = FALSE
    /\ log = <<>>
    /\ messages = <<>>
    /\ lastWhoResponse = [n \in Agents |-> [set |-> FALSE, clients |-> <<>>]]
    /\ pendingQuestions = [n \in Agents |-> {}]
    /\ resolved = <<>>
    /\ delivered = [name |-> Undefined, msg |-> Msg("none"), isDupe |-> FALSE]
    /\ due = "off"
    /\ \/ JoinedAll(<<"a", "b">>)
       \/ JoinedAll(<<"a">>)

\* The result an ask promise is resolved with.
AskResult(name, qId, success, answer) ==
    [name |-> name, qId |-> qId, success |-> success, answer |-> answer]

\* crypto.randomBytes(4): an id the agent has not used for a question yet
FreshId(name, qId) ==
    /\ qId \notin pendingQuestions[name]
    /\ \A i \in 1..Len(resolved) : ~(resolved[i].name = name /\ resolved[i].qId = qId)

\* the timeout callback that resolves and leaves the entry in the Map
AskTimeoutKeepsEntry(name, qId) ==
    /\ qId \in pendingQuestions[name]
    /\ \A i \in 1..Len(resolved) :
          ~(resolved[i].name = name /\ resolved[i].qId = qId)
    /\ resolved' = Append(resolved, AskResult(name, qId, FALSE, "No response (timeout)"))
    /\ event' = [ClientEvent("askTimeout", name, connections[name].ws) EXCEPT !.qId = qId]
    /\ UNCHANGED <<pendingQuestions, messages, lastWhoResponse, delivered, steps,
                   connections, sockets, ensuring>>
    /\ UNCHANGED brokerVars

AskStepBudget ==
    /\ steps < MaxAskSteps
    /\ steps' = steps + 1

\* ask(name, question): refused without a name or a connected entry; else the
\* question is entered in pendingQuestions and sent as a chat on conn.ws
Ask(name, qId) ==
    /\ AskStepBudget
    /\ IF Falsy(name)
       THEN /\ resolved' = Append(resolved, AskResult(name, Undefined, FALSE, "Name is required"))
            /\ event' = ClientEvent("ask", name, 0)
            /\ UNCHANGED <<pendingQuestions, sockets>>
       ELSE IF ~connections[name].has \/ ~connections[name].connected
       THEN /\ resolved' = Append(resolved, AskResult(name, Undefined, FALSE, "is not connected"))
            /\ event' = ClientEvent("ask", name, 0)
            /\ UNCHANGED <<pendingQuestions, sockets>>
       ELSE LET ws == connections[name].ws
            IN  /\ FreshId(name, qId)
                /\ pendingQuestions' = [pendingQuestions EXCEPT ![name] = @ \cup {qId}]
                /\ sockets' = IF sockets[ws].readyState = OPEN
                              THEN [sockets EXCEPT ![ws].frames = Append(@, QuestionText(qId))]
                              ELSE sockets
                /\ event' = [ClientEvent("ask", name, ws) EXCEPT
                                !.qId = qId, !.wasOpen = (sockets[ws].readyState = OPEN)]
                /\ UNCHANGED resolved
    /\ UNCHANGED <<messages, lastWhoResponse, delivered, connections, ensuring>>
    /\ UNCHANGED brokerVars

\* the setTimeout callback of ask: the entry is deleted and the promise is
\* resolved with the failure. The answer handler clears the timer, so the
\* callback runs only while the entry is in the Map.
AskTimeout(name, qId) ==
    /\ qId \in pendingQuestions[name]
    /\ pendingQuestions' = [pendingQuestions EXCEPT ![name] = @ \ {qId}]
    /\ resolved' = Append(resolved, AskResult(name, qId, FALSE, "No response (timeout)"))
    /\ event' = [ClientEvent("askTimeout", name, connections[name].ws) EXCEPT !.qId = qId]
    /\ UNCHANGED <<messages, lastWhoResponse, delivered, steps, connections, sockets,
                   ensuring>>
    /\ UNCHANGED brokerVars

AskNext ==
    \/ \E name \in AskNames, qId \in AskIds : Ask(name, qId)
    \/ \E name \in Agents, qId \in AskIds : AskTimeout(name, qId)
    \/ \E name \in Agents, msg \in AskDeliveries :
          /\ connections[name].has
          /\ steps < MaxAskSteps
          /\ AdapterOnMessage(name, msg)

\* The timer of a pending question fires unless the answer clears it.
AskSpec ==
    /\ AskInit
    /\ [][AskNext]_vars
    /\ \A name \in Agents, qId \in AskIds : WF_vars(AskTimeout(name, qId))

\* ------------------------------------------- connect and ensureConnected
\* The adapter with no agent joined yet.
ConnInit ==
    /\ BrokerInit
    /\ recording = FALSE
    /\ log = <<>>
    /\ AdapterIdle
    /\ due = "off"

\* A call or a socket event of the run.
ConnStep ==
    /\ steps < MaxConnSteps
    /\ steps' = steps + 1

\* conn.connected && conn.ws && conn.ws.readyState === 1
IsConnected(conn, S) ==
    /\ conn.connected
    /\ conn.ws # 0
    /\ S[conn.ws].readyState = OPEN

\* The promise of socket s is resolved with outcome unless it is resolved
\* already.
Resolve(S, s, outcome) ==
    [S EXCEPT ![s].promise = IF @ = "pending" THEN outcome ELSE @]

\* ws.terminate(). A socket that is connecting aborts its handshake and emits
\* error and close on the next tick, before any timer or socket event: its
\* error handler clears the timer and resolves the promise with the failure,
\* and both handlers write false to flags that connect has just set to false.
\* An open or closing socket is destroyed and emits close later. A closed
\* socket is left as it is.
Terminate(S, s) ==
    IF S[s].readyState = CONNECTING
    THEN [Resolve(S, s, "failure") EXCEPT ![s].readyState = CLOSED, ![s].timer = FALSE]
    ELSE IF S[s].readyState \in {OPEN, CLOSING}
    THEN [S EXCEPT ![s].readyState = CLOSING]
    ELSE S

\* connect(name, type, isReconnect) up to the promise it returns: the entry
\* of the agent, the sockets, the socket the promise belongs to, and whether
\* the promise is resolved already.
Connect(name, type, C, S) ==
    LET conn0 == IF C[name].has THEN C[name] ELSE NewConn
        conn == IF Falsy(type) THEN conn0 ELSE [conn0 EXCEPT !.type = type]
    IN  IF IsConnected(conn, S)
        THEN [connections |-> [C EXCEPT ![name] = [conn EXCEPT !.registered = TRUE]],
              sockets |-> IF conn.registered THEN S
                          ELSE [S EXCEPT ![conn.ws].frames = Append(@, "register")],
              ws |-> conn.ws,
              joined |-> TRUE]
        ELSE LET S1 == IF conn.ws # 0 THEN Terminate(S, conn.ws) ELSE S
                 S2 == Append(S1, NewSocket(name))
                 reset == IF conn.ws # 0
                          THEN [conn EXCEPT !.connected = FALSE, !.registered = FALSE]
                          ELSE conn
             IN  [connections |-> [C EXCEPT ![name] = [reset EXCEPT !.ws = Len(S2)]],
                  sockets |-> S2,
                  ws |-> Len(S2),
                  joined |-> FALSE]

\* The ensureConnected calls that await a connect promise go on as soon as it
\* is resolved: with success the call returns wasReconnect true, with a
\* failure it sleeps 500 * attempt milliseconds.
Settle(E, S) ==
    [n \in Agents |->
        IF E[n].pc = "await" /\ S[E[n].ws].promise = "success"
        THEN [E[n] EXCEPT !.pc = "done", !.result = "reconnected"]
        ELSE IF E[n].pc = "await" /\ S[E[n].ws].promise = "failure"
        THEN [E[n] EXCEPT !.pc = "sleep"]
        ELSE E[n]]

\* One round of the loop of ensureConnected: connect(name, conn.type, true)
Attempt(name, attempt) ==
    LET r == Connect(name, connections[name].type, connections, sockets)
        e == [ensuring[name] EXCEPT !.attempt = attempt, !.connects = @ + 1,
                                    !.ws = r.ws]
    IN  /\ Len(r.sockets) <= MaxSockets
        /\ connections' = r.connections
        /\ sockets' = r.sockets
        /\ ensuring' = Settle([ensuring EXCEPT ![name] =
                                  IF r.joined
                                  THEN [e EXCEPT !.pc = "done", !.result = "reconnected"]
                                  ELSE [e EXCEPT !.pc = "await"]],
                              r.sockets)

\* chatroom_join: connect(args.name, args.type)
Join(name, type) ==
    /\ ConnStep
    /\ LET r == Connect(name, type, connections, sockets)
       IN  /\ Len(r.sockets) <= MaxSockets
           /\ connections' = r.connections
           /\ sockets' = r.sockets
           /\ ensuring' = Settle(ensuring, r.sockets)
           /\ event' = ClientEvent("join", name, r.ws)
    /\ UNCHANGED <<messages, lastWhoResponse, pendingQuestions, resolved, delivered>>
    /\ UNCHANGED brokerVars

\* ensureConnected(name) up to its first await
EnsureConnected(name) ==
    /\ ConnStep
    /\ ensuring[name].pc = "idle"
    /\ event' = [ClientEvent("ensureConnected", name, connections[name].ws) EXCEPT
                    !.wasOpen = /\ connections[name].ws # 0
                                /\ sockets[connections[name].ws].readyState = OPEN]
    /\ IF ~connections[name].has
       THEN /\ ensuring' = [ensuring EXCEPT ![name] =
                              [@ EXCEPT !.pc = "done", !.result = "notInitialized"]]
            /\ UNCHANGED <<connections, sockets>>
       ELSE IF IsConnected(connections[name], sockets)
       THEN /\ ensuring' = [ensuring EXCEPT ![name] =
                              [@ EXCEPT !.pc = "done", !.result = "connected"]]
            /\ UNCHANGED <<connections, sockets>>
       ELSE Attempt(name, 1)
    /\ UNCHANGED <<messages, lastWhoResponse, pendingQuestions, resolved, delivered>>
    /\ UNCHANGED brokerVars

\* the timer of ensureConnected's sleep: the next round of the loop, or the
\* failure after the last
EnsureWake(name) ==
    /\ ConnStep
    /\ ensuring[name].pc = "sleep"
    /\ event' = ClientEvent("wake", name, connections[name].ws)
    /\ IF ensuring[name].attempt < MAX_RECONNECT_ATTEMPTS
       THEN Attempt(name, ensuring[name].attempt + 1)
       ELSE /\ ensuring' = [ensuring EXCEPT ![name] =
                              [@ EXCEPT !.pc = "done", !.result = "failed"]]
            /\ UNCHANGED <<connections, sockets>>
    /\ UNCHANGED <<messages, lastWhoResponse, pendingQuestions, resolved, delivered>>
    /\ UNCHANGED brokerVars

\* What the handlers of socket s write: conn is the entry of the agent the
\* socket was created for, whatever socket conn.ws is by now.
SocketEvent(op, s, flag, S) ==
    /\ ConnStep
    /\ connections' = [connections EXCEPT ![sockets[s].name] =
                          [@ EXCEPT !.connected = flag, !.registered = flag]]
    /\ sockets' = S
    /\ ensuring' = Settle(ensuring, S)
    /\ event' = ClientEvent(op, sockets[s].name, s)
    /\ UNCHANGED <<messages, lastWhoResponse, pendingQuestions, resolved, delivered>>
    /\ UNCHANGED brokerVars

\* ws.on('open'): the timer is cleared, register is sent, the promise resolved
OnOpen(s) ==
    /\ sockets[s].readyState = CONNECTING
    /\ SocketEvent("open", s, TRUE,
                   [Resolve(sockets, s, "success") EXCEPT
                       ![s].readyState = OPEN, ![s].timer = FALSE,
                       ![s].frames = Append(@, "register")])

\* the setTimeout callback of connect, 5 seconds after the socket was created
OnConnectTimeout(s) ==
    /\ sockets[s].timer
    /\ SocketEvent("timeout", s, FALSE,
                   [Resolve(sockets, s, "failure") EXCEPT ![s].timer = FALSE])

\* The handshake fails: the socket emits error and then close in one go.
OnConnectError(s) ==
    /\ sockets[s].readyState = CONNECTING
    /\ SocketEvent("error", s, FALSE,
                   [Resolve(sockets, s, "failure") EXCEPT
                       ![s].readyState = CLOSED, ![s].timer = FALSE])

\* The broker's close frame arrives: the socket is closing, no event yet.
OnCloseFrame(s) ==
    /\ ConnStep
    /\ sockets[s].readyState = OPEN
    /\ sockets' = [sockets EXCEPT ![s].readyState = CLOSING]
    /\ event' = ClientEvent("closeFrame", sockets[s].name, s)
    /\ UNCHANGED <<connections, ensuring>>
    /\ UNCHANGED <<messages, lastWhoResponse, pendingQuestions, resolved, delivered>>
    /\ UNCHANGED brokerVars

\* ws.on('error') of an open socket: the socket is closing, close comes later
OnSocketError(s) ==
    /\ sockets[s].readyState = OPEN
    /\ SocketEvent("error", s, FALSE,
                   [Resolve(sockets, s, "failure") EXCEPT
                       ![s].readyState = CLOSING, ![s].timer = FALSE])

\* ws.on('close'): of an open or closing socket, also of one that connect has
\* terminated and replaced
OnSocketClose(s) ==
    /\ sockets[s].readyState \in {OPEN, CLOSING}
    /\ SocketEvent("close", s, FALSE, [sockets EXCEPT ![s].readyState = CLOSED])

ConnNext ==
    \/ \E in \in JoinInputs : Join(in[1], in[2])
    \/ \E name \in Agents : EnsureConnected(name)
    \/ \E name \in Agents : EnsureWake(name)
    \/ \E s \in 1..Len(sockets) : OnOpen(s)
    \/ \E s \in 1..Len(sockets) : OnConnectTimeout(s)
    \/ \E s \in 1..Len(sockets) : OnConnectError(s)
    \/ \E s \in 1..Len(sockets) : OnCloseFrame(s)
    \/ \E s \in 1..Len(sockets) : OnSocketError(s)
    \/ \E s \in 1..Len(sockets) : OnSocketClose(s)

ConnSpec == ConnInit /\ [][ConnNext]_vars

\* ------------------------------------------------------------ properties
Registered(c) == Has(clients, c)
Copies(d, type) ==
    Cardinality({i \in 1..Len(sent) : sent[i].to = d /\ sent[i].msg.type = type})
Relayed == last.op \in {"chat", "discovery"}

\* C1: when the broker processes a chat or discovery message of a registered
\* connection, every connection that is registered with an open transport,
\* the sender included, is sent exactly one relayed copy of it, and the copy
\* carries the text of the message.
C1_RelayToRegisteredOpen ==
    (Relayed /\ last.had) =>
        /\ Copies(last.ws, last.op) = 1
        /\ \A d \in Conns : (Registered(d) /\ readyState[d] = OPEN) => Copies(d, last.op) = 1
        /\ \A d \in Conns : Copies(d, last.op) <= 1
        /\ \A i \in 1..Len(sent) :
              /\ sent[i].msg.type = last.op
              /\ sent[i].msg.text = last.text
              /\ Registered(sent[i].to) /\ readyState[sent[i].to] = OPEN

\* C1 witness: a registered connection's message is relayed to itself and to
\* another registered open connection.
C1_Witness ==
    /\ Relayed /\ last.had
    /\ \E d \in Conns : d # last.ws /\ Registered(d) /\ Copies(d, last.op) = 1
    /\ Copies(last.ws, last.op) = 1

\* C2 as stated: a chat or discovery message is sent to every connection whose
\* transport is open, registered or not, the sender included.
C2_Original ==
    Relayed => \A d \in Conns : readyState[d] = OPEN => Copies(d, last.op) = 1

\* C2 amended: a chat or discovery message, whoever sends it, is sent once to
\* every connection that is registered and open and to no other: an open
\* connection that has not registered receives nothing, and an unregistered
\* sender does not receive its own message.
C2_RelayOnlyToRegistry ==
    Relayed =>
        /\ \A d \in Conns :
              Copies(d, last.op) = IF Registered(d) /\ readyState[d] = OPEN THEN 1 ELSE 0
        /\ Len(sent) = Cardinality({d \in Conns : Registered(d) /\ readyState[d] = OPEN})
        /\ ~last.had => \A i \in 1..Len(sent) : sent[i].to # last.ws

\* C2 witness: an unregistered connection's message is relayed to a registered one.
C2_Witness ==
    /\ Relayed /\ ~last.had
    /\ readyState[last.ws] = OPEN
    /\ Len(sent) = 1 /\ sent[1].to # last.ws

Closed == last.op = "close" /\ last.had
Notices == {i \in 1..Len(sent) : sent[i].msg.type = "system"}

\* C3: the exit reason of a registered connection's close follows the
\* precedence: code 1000 or leaving flag, "left normally"; else code 1001,
\* "going away"; else code 1006, "connection lost"; else liveness flag false,
\* "heartbeat timeout"; else "disconnected"; and the leave notice carries it.
C3_ExitReasonPrecedence ==
    Closed =>
        /\ last.exitReason =
              CASE last.code = 1000 \/ last.info.leaving -> "left normally"
                [] last.code = 1001 /\ ~last.info.leaving -> "going away"
                [] last.code = 1006 /\ ~last.info.leaving -> "connection lost"
                [] last.code \notin {1000, 1001, 1006} /\ ~last.info.leaving
                       /\ ~last.info.alive -> "heartbeat timeout"
                [] OTHER -> "disconnected"
        /\ \A i \in Notices : sent[i].msg.reason = last.exitReason

\* C3 witness: the close, with another code than 1000, 1001 and 1006, of a
\* record that is neither alive nor leaving: the fourth rank of the precedence.
C3_Witness ==
    /\ Closed
    /\ last.code \notin {1000, 1001, 1006}
    /\ ~last.info.alive /\ ~last.info.leaving
    /\ last.exitReason = "heartbeat timeout"

\* C4: the close of a registered connection that the broker terminated, its
\* liveness flag false and its leaving flag unset, is announced with the exit
\* reason "heartbeat timeout".
C4_TerminatedIsHeartbeatTimeout ==
    (Closed /\ last.ws \in terminated /\ ~last.info.alive /\ ~last.info.leaving)
        => last.exitReason = "heartbeat timeout"

\* C5 as stated: a record that two heartbeat ticks have visited since its last
\* pong has been terminated.
C5_Original ==
    \A c \in Conns : (Registered(c) /\ missed[c] >= 2) => c \in terminated

\* C5 amended: a record is alive exactly when no heartbeat tick has visited it
\* since its last pong or register; one that two ticks have visited since then
\* has been terminated; and the record of a terminated connection stays in the
\* registry until the close event, which removes it.
C5_TerminatedBySecondTick ==
    \A c \in Conns :
        /\ Registered(c) => (Get(clients, c).alive <=> stale[c] = 0)
        /\ (Registered(c) /\ stale[c] >= 2) => c \in terminated
        /\ c \in terminated =>
              \/ Registered(c) /\ readyState[c] = CLOSING
              \/ ~Registered(c) /\ readyState[c] = CLOSED

\* C5 witness: the second tick after a pong has terminated the connection.
C5_Witness ==
    /\ last.op = "heartbeat"
    /\ \E c \in last.killed : stale[c] = 2 /\ missed[c] = 2 /\ readyState[c] = CLOSING

\* C6: a connection goes from open to closing without a close frame of its
\* peer only in a heartbeat tick, and only if its record was not alive and a
\* tick had probed it with no pong or register since; the broker calls
\* terminate in no other event.
C6_OnlyHeartbeatTerminates ==
    [][\A c \in Conns :
          /\ (c \in terminated' /\ c \notin terminated) =>
                /\ last'.op = "heartbeat"
                /\ Registered(c) /\ ~Get(clients, c).alive
                /\ stale[c] >= 1
          /\ (readyState[c] = OPEN /\ readyState'[c] = CLOSING
                 /\ last'.op # "closeframe") =>
                (c \in terminated' /\ c \notin terminated)
          /\ (readyState[c] = OPEN /\ readyState'[c] = CLOSED) => last'.op = "close"
          /\ (last'.op = "heartbeat" /\ Registered(c) /\ Get(clients, c).alive)
                => (c \notin terminated' \ terminated)]_vars

\* C6 witness: a heartbeat tick has terminated one record and pinged another.
C6_Witness ==
    /\ last.op = "heartbeat"
    /\ last.killed # {} /\ last.pinged # {}

\* C7 as stated: once a registered connection has announced leaving, its close
\* is reported as "left normally".
C7_Original ==
    (Closed /\ announced[last.ws] \in {"yes", "reset"}) => last.exitReason = "left normally"

\* C7 amended: the close of a registered connection that announced leaving,
\* by a leaving message or a discovery of category "leaving", and has not
\* sent register since, is reported as "left normally" whatever the close
\* code and the liveness flag, also after a heartbeat termination; so is every
\* close with code 1000.
C7_LeavingIsLeftNormally ==
    Closed =>
        /\ announced[last.ws] = "yes" => last.exitReason = "left normally"
        /\ last.code = 1000 => last.exitReason = "left normally"
        /\ \A i \in Notices : sent[i].msg.reason = last.exitReason

\* C7 witness: a connection that announced leaving was terminated by the
\* heartbeat, and its close carries code 1006.
C7_Witness ==
    /\ Closed
    /\ announced[last.ws] = "yes"
    /\ last.ws \in terminated /\ last.code = 1006 /\ ~last.info.alive

\* C8: a who query makes the broker send exactly one frame, a who_response to
\* the asking connection; its list has one entry per record of the registry,
\* with the record's name, type and joinedAt, and none for a connection that
\* has not registered; no other event sends a who_response.
C8_WhoPointToPoint ==
    /\ last.op = "who" =>
          /\ Len(sent) = 1
          /\ sent[1].to = last.ws
          /\ sent[1].msg.type = "who_response"
          /\ Len(sent[1].msg.clients) = Cardinality({c \in Conns : Registered(c)})
          /\ \A c \in Conns : Registered(c) =>
                \E i \in 1..Len(sent[1].msg.clients) :
                   /\ sent[1].msg.clients[i].name = Get(clients, c).name
                   /\ sent[1].msg.clients[i].type = Get(clients, c).type
                   /\ sent[1].msg.clients[i].joinedAt = Get(clients, c).joinedAt
          /\ \A i \in 1..Len(sent[1].msg.clients) :
                sent[1].msg.clients[i].name # "unknown"
    /\ \A i \in 1..Len(sent) : sent[i].msg.type = "who_response" => last.op = "who"

\* C8 witness: an unregistered connection asks while another is registered.
C8_Witness ==
    /\ last.op = "who" /\ ~last.had
    /\ \E c \in Conns : c # last.ws /\ Registered(c) /\ readyState[c] = OPEN
    /\ Len(sent) = 1 /\ Len(sent[1].msg.clients) = 1

\* C9 as stated: every connection that has a record has an open transport.
C9_Original ==
    \A c \in Conns : Registered(c) => readyState[c] = OPEN

\* C9 amended: every connection that has a record has a transport whose close
\* event has not been processed, open or closing, and the close event removes
\* the record in the same step; a snapshot or a who_response lists as many
\* entries as there are such connections.
C9_RecordUntilCloseEvent ==
    /\ \A c \in Conns : Registered(c) => readyState[c] \in {OPEN, CLOSING}
    /\ \A i \in 1..Len(sent) :
          /\ sent[i].msg.type = "participants_update" =>
                Len(sent[i].msg.participants) =
                   Cardinality({c \in Conns : Registered(c) /\ readyState[c] \in {OPEN, CLOSING}})
          /\ sent[i].msg.type = "who_response" =>
                Len(sent[i].msg.clients) =
                   Cardinality({c \in Conns : Registered(c) /\ readyState[c] \in {OPEN, CLOSING}})

\* C9 witness: a snapshot or a who_response is sent while the registry holds
\* the record of a connection that is closing.
C9_Witness ==
    /\ last.op \in {"participants", "who"}
    /\ Len(sent) > 0
    /\ \E c \in Conns : Registered(c) /\ readyState[c] = CLOSING

Snapshots == {i \in 1..Len(sent) : sent[i].msg.type = "participants_update"}

\* C10: no frame is ever sent to a connection that is not open, so none after
\* its close; the close of a registered connection sends the leave notice and
\* then the snapshot to the others only, and the snapshot does not list the
\* closed connection; a register sends the joined notice and then the
\* snapshot to the registering connection too, and the snapshot lists it.
C10_CloseExcludesRegisterIncludes ==
    /\ \A i \in 1..Len(sent) : readyState[sent[i].to] = OPEN
    /\ Closed =>
          /\ ~Registered(last.ws)
          /\ \A i \in 1..Len(sent) : sent[i].to # last.ws
          /\ \A i \in Snapshots :
                /\ Len(sent[i].msg.participants) = Cardinality({c \in Conns : Registered(c)})
                /\ \A j \in Notices : j < i
          /\ \A d \in Conns : (Registered(d) /\ readyState[d] = OPEN) =>
                /\ \E i \in Notices : sent[i].to = d /\ sent[i].msg.name = last.info.name
                /\ \E i \in Snapshots : sent[i].to = d
    /\ last.op = "register" =>
          /\ Registered(last.ws)
          /\ \E i \in Notices :
                /\ sent[i].to = last.ws
                /\ sent[i].msg.reason = "joined" /\ sent[i].msg.name = last.info.name
          /\ \E i \in Snapshots :
                /\ sent[i].to = last.ws
                /\ \A j \in Notices : j < i
                /\ \E k \in 1..Len(sent[i].msg.participants) :
                      /\ sent[i].msg.participants[k].name = last.info.name
                      /\ sent[i].msg.participants[k].type = last.info.type
                      /\ sent[i].msg.participants[k].joinedAt = last.info.joinedAt

\* C10 witness: the close of a registered connection is announced to another
\* registered connection.
C10_Witness ==
    /\ Closed
    /\ Notices # {} /\ Snapshots # {}
    /\ \E d \in Conns : d # last.ws /\ Registered(d)

\* C11: every record of the registry has its identity set.
C11_IdentityAlwaysSet ==
    \A i \in 1..Len(clients) : ~Falsy(clients[i].info.name)

OpenRegistry == {d \in Conns : Registered(d) /\ readyState[d] = OPEN}

\* C12: every register, also one on a connection that already has a record,
\* writes the record of that connection, leaves exactly one record for it, and
\* sends one joined notice and then one snapshot to every registered open
\* connection and to no other.
C12_EveryRegisterIsFullJoin ==
    last.op = "register" =>
        /\ Cardinality({i \in 1..Len(clients) : clients[i].ws = last.ws}) = 1
        /\ Get(clients, last.ws) = last.info
        /\ \A d \in OpenRegistry :
              /\ Cardinality({i \in Notices : sent[i].to = d}) = 1
              /\ Cardinality({i \in Snapshots : sent[i].to = d}) = 1
        /\ Len(sent) = 2 * Cardinality(OpenRegistry)
        /\ \A i \in Notices :
              /\ sent[i].msg.reason = "joined" /\ sent[i].msg.name = last.info.name
              /\ \A j \in Snapshots : i < j
        /\ \A i \in Snapshots : Len(sent[i].msg.participants) = Len(clients)

\* C12 witness: a connection that already has a record registers again while
\* another registered connection is open.
C12_Witness ==
    /\ last.op = "register" /\ last.had
    /\ \E d \in OpenRegistry : d # last.ws
    /\ Len(sent) = 4

\* The frames a connection has been sent since the start, in order.
Inbox(c) == SelectSeq(log, LAMBDA f : f.to = c)
JoinedIn(c) == SelectSeq(Inbox(c), LAMBDA f : f.msg.type = "system" /\ f.msg.reason = "joined")
SnapshotsIn(c) == SelectSeq(Inbox(c), LAMBDA f : f.msg.type = "participants_update")
DiscoveriesIn(c) == SelectSeq(Inbox(c), LAMBDA f : f.msg.type = "discovery")

\* The run is: A and B connect and register with a name, A before B, and then
\* A sends a discovery of category "claiming" without a from field; nothing
\* else has happened.
Scenario13 ==
    /\ recording /\ steps = 5
    /\ last.op = "discovery" /\ last.category = "claiming" /\ last.from = Undefined
    /\ Len(clients) = 2
    /\ last.ws = clients[1].ws
    /\ ~Falsy(clients[1].info.name) /\ ~Falsy(clients[2].info.name)

RelayedTo(c) ==
    /\ Len(DiscoveriesIn(c)) = 1
    /\ DiscoveriesIn(c)[1].msg.from = clients[1].info.name
    /\ DiscoveriesIn(c)[1].msg.category = "claiming"
    /\ DiscoveriesIn(c)[1].msg.text = last.text
    /\ DiscoveriesIn(c)[1].msg.timestamp = now
    /\ Inbox(c)[Len(Inbox(c))] = DiscoveriesIn(c)[1]

\* C13 as stated: in that run A and B both receive the relayed discovery, and
\* each has received two joined notices and two snapshots, of 1 then 2 members.
C13_Original ==
    Scenario13 =>
        \A c \in {clients[1].ws, clients[2].ws} :
            /\ RelayedTo(c)
            /\ Len(JoinedIn(c)) = 2
            /\ Len(SnapshotsIn(c)) = 2
            /\ Len(SnapshotsIn(c)[1].msg.participants) = 1
            /\ Len(SnapshotsIn(c)[2].msg.participants) = 2

\* C13 amended: in that run A and B both receive the relayed discovery, with
\* A's name, the category, the text and the broker's timestamp; by then A has
\* received two joined notices and two snapshots, of 1 then 2 members, and B,
\* which registered after A, one joined notice, its own, and one snapshot, of
\* 2 members.
C13_ScenarioClaiming ==
    Scenario13 =>
        LET A == clients[1].ws
            B == clients[2].ws
        IN  /\ RelayedTo(A) /\ RelayedTo(B)
            /\ Len(JoinedIn(A)) = 2
            /\ JoinedIn(A)[1].msg.name = clients[1].info.name
            /\ JoinedIn(A)[2].msg.name = clients[2].info.name
            /\ Len(SnapshotsIn(A)) = 2
            /\ Len(SnapshotsIn(A)[1].msg.participants) = 1
            /\ Len(SnapshotsIn(A)[2].msg.participants) = 2
            /\ Len(JoinedIn(B)) = 1
            /\ JoinedIn(B)[1].msg.name = clients[2].info.name
            /\ Len(SnapshotsIn(B)) = 1
            /\ Len(SnapshotsIn(B)[1].msg.participants) = 2

\* C13 witness: the end of that run, A registered as "a" and B as "b".
C13_Witness ==
    /\ Scenario13
    /\ clients[1].info.name = "a" /\ clients[2].info.name = "b"
    /\ Len(Inbox(clients[1].ws)) = 5 /\ Len(Inbox(clients[2].ws)) = 3

\* The step is a handler or timer callback, not an advance of the clock.
EventStep == steps' # steps /\ now' = now

\* C14: a malformed payload changes nothing: the registry, every record,
\* every transport and every closure are as before, no frame is sent, and the
\* sending connection is still open and keeps its record; the broker state
\* being the same, later messages are handled as if it had not arrived.
C14_MalformedIsDropped ==
    [][(EventStep /\ last'.op = "malformed") =>
          /\ clients' = clients
          /\ readyState' = readyState /\ readyState'[last'.ws] = OPEN
          /\ closeCode' = closeCode
          /\ clientInfo' = clientInfo
          /\ terminated' = terminated
          /\ sent' = <<>>
          /\ Registered(last'.ws) => Has(clients', last'.ws)]_vars

\* C14 witness: a registered connection has sent a malformed payload while
\* another connection is registered.
C14_Witness ==
    /\ last.op = "malformed" /\ last.had
    /\ Registered(last.ws) /\ readyState[last.ws] = OPEN
    /\ \E d \in OpenRegistry : d # last.ws

\* C15: every frame an event sends carries the clock value at that event, and
\* of two frames the broker sent, the later carries a timestamp greater than
\* or equal to the earlier's.
C15_TimestampsFromClock ==
    /\ [](\A i, j \in 1..Len(log) : i < j => log[i].msg.timestamp <= log[j].msg.timestamp)
    /\ [][EventStep => \A i \in 1..Len(sent') : sent'[i].msg.timestamp = now]_vars

\* C15 witness: a chat relayed after the clock advanced follows an earlier frame.
C15_Witness ==
    \E i, j \in 1..Len(log) :
        /\ i < j
        /\ log[j].msg.type = "chat"
        /\ log[i].msg.timestamp < log[j].msg.timestamp

BroadcastOps == {"register", "chat", "discovery", "close", "participants"}

\* C16: a fan-out sends to every connection of the registry whose transport
\* is open and skips the others; the skip changes neither the registry nor
\* the transports; no event sends a frame to a connection that is not open,
\* and a connection that is not open does not become open again, so a
\* skipped frame is never delivered later.
C16_SkipClosedTargetOnly ==
    [][EventStep =>
          /\ \A i \in 1..Len(sent') : readyState[sent'[i].to] = OPEN
          /\ \A c \in Conns : readyState[c] \in {CLOSING, CLOSED} => readyState'[c] # OPEN
          /\ (last'.op \in BroadcastOps /\ (last'.op = "close" => last'.had)) =>
                {sent'[i].to : i \in 1..Len(sent')} =
                   {d \in Keys(clients') : readyState'[d] = OPEN}
          /\ last'.op \in {"chat", "discovery"} =>
                /\ Keys(clients') = Keys(clients)
                /\ readyState' = readyState
                /\ \A d \in Keys(clients) :
                      Cardinality({i \in 1..Len(sent') : sent'[i].to = d})
                         = IF readyState[d] = OPEN THEN 1 ELSE 0]_vars

\* C16 witness: a message is relayed to a registered open connection while
\* another record's transport is closing.
C16_Witness ==
    /\ Relayed
    /\ \E d \in Conns : Registered(d) /\ readyState[d] = CLOSING /\ Copies(d, last.op) = 0
    /\ \E d \in OpenRegistry : Copies(d, last.op) = 1

\* C17: a tick of the participants timer calls broadcastParticipants if and
\* only if the registry is not empty; the call sends one snapshot, listing the
\* whole registry, to every registered open connection; with an empty
\* registry nothing is sent; the tick changes no record and no transport.
C17_SnapshotTickOnlyIfRegistered ==
    [][(EventStep /\ last'.op = "participants") =>
          /\ last'.called <=> Len(clients) > 0
          /\ Len(clients) = 0 => sent' = <<>>
          /\ Len(sent') = Cardinality(OpenRegistry)
          /\ \A d \in OpenRegistry : \E i \in 1..Len(sent') : sent'[i].to = d
          /\ \A i \in 1..Len(sent') :
                /\ sent'[i].msg.type = "participants_update"
                /\ Len(sent'[i].msg.participants) = Len(clients)
          /\ clients' = clients
          /\ readyState' = readyState]_vars

\* C17 witness: a tick has sent the snapshot of a registry of two records.
C17_Witness ==
    /\ last.op = "participants" /\ last.called
    /\ Len(clients) = 2
    /\ Len(sent) >= 1

\* The records of the registry other than that of connection c are the same
\* before and after the step, and so are the keys and their order.
OthersKept(c) ==
    /\ Len(clients') = Len(clients)
    /\ \A i \in 1..Len(clients) :
          /\ clients'[i].ws = clients[i].ws
          /\ clients[i].ws # c => clients'[i] = clients[i]

\* C19: a leaving message of a registered connection sets the leaving flag of
\* its record and nothing else: no frame is sent, the other fields of the
\* record, the other records, the transports and the closures are unchanged.
C19_LeavingOnlySetsFlag ==
    [][(EventStep /\ last'.op = "leaving") =>
          /\ sent' = <<>>
          /\ readyState' = readyState /\ closeCode' = closeCode
          /\ clientInfo' = clientInfo /\ terminated' = terminated
          /\ OthersKept(last'.ws)
          /\ Registered(last'.ws) =>
                Get(clients', last'.ws) = [Get(clients, last'.ws) EXCEPT !.leaving = TRUE]
          /\ ~Registered(last'.ws) => clients' = clients]_vars

\* C19 witness: a registered connection has sent leaving while the registry
\* holds a second record.
C19_Witness ==
    /\ last.op = "leaving" /\ last.had
    /\ Get(clients, last.ws).leaving
    /\ Len(clients) = 2

\* The entry of connection c in the snapshots the step sends.
EntrySent(c, i) == sent'[i].msg.participants[Index(clients', c)]

StatusFrame(c) ==
    /\ OthersKept(c)
    /\ readyState' = readyState /\ closeCode' = closeCode
    /\ clientInfo' = clientInfo /\ terminated' = terminated
    /\ ~Registered(c) => (clients' = clients /\ sent' = <<>>)
    /\ Registered(c) =>
          /\ Get(clients', c).name = Get(clients, c).name
          /\ Get(clients', c).type = Get(clients, c).type
          /\ Get(clients', c).joinedAt = Get(clients, c).joinedAt
          /\ Get(clients', c).alive = Get(clients, c).alive
          /\ Get(clients', c).leaving = Get(clients, c).leaving
          /\ Len(sent') = Cardinality(OpenRegistry)
          /\ \A d \in OpenRegistry : \E i \in 1..Len(sent') : sent'[i].to = d
          /\ \A i \in 1..Len(sent') :
                /\ sent'[i].msg.type = "participants_update"
                /\ Len(sent'[i].msg.participants) = Len(clients)
                /\ EntrySent(c, i).task = Get(clients', c).task

\* C20 as stated: a status_update changes only the status and task of the
\* sender's record and sends one snapshot whose entry shows the new status
\* and task; from an unregistered connection it changes and sends nothing.
C20_Original ==
    [][(EventStep /\ last'.op = "status_update") =>
          /\ StatusFrame(last'.ws)
          /\ Registered(last'.ws) =>
                \A i \in 1..Len(sent') :
                    EntrySent(last'.ws, i).status = Get(clients', last'.ws).status]_vars

\* C20 amended: the same, except that the entry of a record of type "user"
\* shows the status "observer" whatever the record's status.
C20_StatusUpdateFrame ==
    [][(EventStep /\ last'.op = "status_update") =>
          /\ StatusFrame(last'.ws)
          /\ Registered(last'.ws) =>
                \A i \in 1..Len(sent') :
                    EntrySent(last'.ws, i).status =
                       IF Get(clients, last'.ws).type = "user" THEN "observer"
                       ELSE Get(clients', last'.ws).status]_vars

\* C20 witness: a registered connection has set its status to "busy" and its
\* task to "t1", and the snapshot went to two connections.
C20_Witness ==
    /\ last.op = "status_update" /\ last.had
    /\ Get(clients, last.ws).status = "busy" /\ Get(clients, last.ws).task = "t1"
    /\ Len(sent) = 2

\* C18: no two entries of the adapter's buffer carry the same timestamp,
\* sender and text, and a delivered message whose triple is that of an entry
\* leaves the buffer as it was, on whichever agent's socket it arrives.
C18_BufferHasNoDuplicate ==
    /\ [](\A i, j \in 1..Len(messages) : SameTriple(messages[i], messages[j]) => i = j)
    /\ [][\A i \in 1..Len(messages) :
            SameTriple(messages[i], delivered'.msg) => messages' = messages]_vars

\* C18 witness: the buffer holds three entries, the first being a chat of
\* "a"; the discovery with the same triple then arrived on the socket of
\* agent "b" and was dropped.
C18_Witness ==
    /\ Len(messages) = 3
    /\ messages[1].type = "chat" /\ messages[1].from = "a"
    /\ delivered.name = "b" /\ delivered.msg.type = "discovery" /\ delivered.isDupe
    /\ SameTriple(messages[1], delivered.msg)
    /\ \A i \in 1..Len(messages) : messages[i].type # "discovery"

\* C21: every relayed chat or discovery of a registered connection carries
\* the name of the sender's record as its from field and the type of the
\* record as its agentType, whatever the message received carried.
C21_FromIsRegisteredIdentity ==
    (Relayed /\ last.had) =>
        \A i \in 1..Len(sent) :
            /\ sent[i].msg.from = Get(clients, last.ws).name
            /\ sent[i].msg.agentType = Get(clients, last.ws).type

\* The list of a who_response, as a set of entries.
Entries(list) == {list[i] : i \in 1..Len(list)}
WhoFrames == SelectSeq(log, LAMBDA f : f.msg.type = "who_response")

\* C22: the list of a who_response is the list of the registry's records at
\* that moment; a who query changes no record; and of two who queries with no
\* other event between them the second yields the same list as the first.
C22_WhoIsIdempotent ==
    /\ [](last.op = "who" =>
            /\ Len(sent) = 1
            /\ sent[1].msg.clients = whoList(clients))
    /\ [][(EventStep /\ last'.op = "who") =>
            /\ clients' = clients
            /\ last.op = "who" =>
                  /\ Entries(sent'[1].msg.clients) = Entries(sent[1].msg.clients)
                  /\ Len(sent'[1].msg.clients) = Len(sent[1].msg.clients)]_vars

\* C22 witness: two who queries, the clock advancing between them, were
\* answered one after the other with the same list of one record.
C22_Witness ==
    /\ last.op = "who"
    /\ Len(WhoFrames) = 2
    /\ log[Len(log)] = WhoFrames[2] /\ log[Len(log) - 1] = WhoFrames[1]
    /\ WhoFrames[1].msg.timestamp < WhoFrames[2].msg.timestamp
    /\ Len(WhoFrames[1].msg.clients) = 1
    /\ Entries(WhoFrames[1].msg.clients) = Entries(WhoFrames[2].msg.clients)

\* The frames of the close event in sent: every connection that is registered
\* and open gets one leave notice that names the record removed, with the exit
\* reason, and after it one snapshot of the registry, which no longer holds
\* the record; nobody else gets a frame.
NoticesTo(d) == {i \in Notices : sent[i].to = d}
SnapshotsTo(d) == {i \in Snapshots : sent[i].to = d}
LeaveAnnounced ==
    /\ ~Registered(last.ws)
    /\ \A i \in 1..Len(sent) : sent[i].to \in OpenRegistry
    /\ Len(sent) = 2 * Cardinality(OpenRegistry)
    /\ \A d \in OpenRegistry :
          /\ Cardinality(NoticesTo(d)) = 1
          /\ Cardinality(SnapshotsTo(d)) = 1
          /\ \A i \in NoticesTo(d) :
                /\ sent[i].msg.name = last.info.name
                /\ sent[i].msg.reason = last.exitReason
                /\ sent[i].msg.reason # "joined"
                /\ \A j \in SnapshotsTo(d) :
                      /\ i < j
                      /\ sent[j].msg.participants = participantsOf(clients)

\* C23: every connection the heartbeat terminated gets its close event, which
\* announces the removal of its record as LeaveAnnounced says; and the close
\* event of a terminated connection happens once: it finds the socket closing
\* and the record in the registry, and leaves the socket closed and the
\* record removed.
C23_EvictionIsAnnounced ==
    /\ \A c \in Conns :
          (c \in terminated /\ Registered(c)) ~> (Closed /\ last.ws = c /\ LeaveAnnounced)
    /\ [][(EventStep /\ last'.op = "close" /\ last'.ws \in terminated) =>
            /\ readyState[last'.ws] = CLOSING /\ readyState'[last'.ws] = CLOSED
            /\ Registered(last'.ws) /\ last'.had
            /\ ~Has(clients', last'.ws)]_vars

\* C23 witness: the close event of a terminated connection has come after the
\* last event of the run, and the notice and the snapshot went to the record
\* that remains.
C23_Witness ==
    /\ Closed /\ last.ws \in terminated
    /\ steps > MaxLiveSteps
    /\ Cardinality(OpenRegistry) = 1
    /\ Len(sent) = 2
    /\ LeaveAnnounced

\* Entry k of snapshot p carries the name, type, task and joinedAt of record k
\* of the registry.
EntryOfRecord(p, k) ==
    /\ p[k].name = clients[k].info.name
    /\ p[k].type = clients[k].info.type
    /\ p[k].task = clients[k].info.task
    /\ p[k].joinedAt = clients[k].info.joinedAt

\* C24 as stated: every snapshot sent has one entry per record of the
\* registry, in the registry's order, and nothing else, and every entry
\* carries the name, type, status, task and joinedAt of its record.
C24_Original ==
    \A i \in Snapshots :
        LET p == sent[i].msg.participants
        IN  /\ Len(p) = Len(clients)
            /\ \A k \in 1..Len(p) :
                  /\ EntryOfRecord(p, k)
                  /\ p[k].status = clients[k].info.status

\* C24 amended: the same, except that the entry of a record of type "user"
\* carries the status "observer" whatever the status of the record.
C24_SnapshotIsRegistry ==
    \A i \in Snapshots :
        LET p == sent[i].msg.participants
        IN  /\ Len(p) = Len(clients)
            /\ \A k \in 1..Len(p) :
                  /\ EntryOfRecord(p, k)
                  /\ p[k].status = IF clients[k].info.type = "user" THEN "observer"
                                   ELSE clients[k].info.status

\* C24 witness: a snapshot of two records, one busy on task "t1" and one never
\* updated, has been sent.
C24_Witness ==
    /\ Snapshots # {}
    /\ Len(clients) = 2
    /\ \E k \in 1..2 : clients[k].info.status = "busy" /\ clients[k].info.task = "t1"
                       /\ clients[k].info.type = "agent"
    /\ \E k \in 1..2 : clients[k].info.status = "idle" /\ clients[k].info.task = Null

\* The frames of the last event are the newest of the log, in the order they
\* were sent: every inbox holds the frames of an event after those of all the
\* events processed before it.
FanOutInOrder ==
    recording =>
        /\ Len(log) >= Len(sent)
        /\ SubSeq(log, Len(log) - Len(sent) + 1, Len(log)) = sent

\* C25: the frames of an event follow, in every inbox, those of the events
\* processed before it, and a chat of a connection that has registered is
\* relayed with the name and type of its record.
C25_ArrivalOrder ==
    /\ FanOutInOrder
    /\ (last.op = "chat" /\ last.had) =>
          \A i \in 1..Len(sent) :
              /\ sent[i].msg.from = Get(clients, last.ws).name
              /\ sent[i].msg.agentType = Get(clients, last.ws).type

\* Connection c has been sent one snapshot by the last event, and it is the
\* snapshot of the registry as it is.
SnapshotDelivered(c) ==
    /\ Cardinality(SnapshotsTo(c)) = 1
    /\ \A i \in SnapshotsTo(c) : sent[i].msg.participants = participantsOf(clients)

\* C26: once the snapshot of the registry has changed, a participants tick
\* follows that sends the current snapshot to every connection that is
\* registered and open by then; and every participants tick sends the
\* snapshot of the registry at that moment, once, to every registered open
\* connection.
C26_TickConverges ==
    /\ (due = "yes")
          ~> (/\ last.op = "participants" /\ due = "no"
              /\ \A c \in OpenRegistry : SnapshotDelivered(c))
    /\ [][(EventStep /\ last'.op = "participants") =>
            \A c \in OpenRegistry :
               /\ Cardinality({i \in 1..Len(sent') : sent'[i].to = c}) = 1
               /\ \A i \in 1..Len(sent') :
                     sent'[i].to = c =>
                        /\ sent'[i].msg.type = "participants_update"
                        /\ sent'[i].msg.participants = participantsOf(clients)]_vars

\* C26 witness: the tick that was due has come after the last event of the
\* run and has sent the snapshot, with a busy record in it, to two connections.
C26_Witness ==
    /\ last.op = "participants" /\ due = "no"
    /\ steps > MaxLiveSteps
    /\ Cardinality(OpenRegistry) = 2
    /\ \A c \in OpenRegistry : SnapshotDelivered(c)
    /\ \E k \in 1..Len(clients) : clients[k].info.status = "busy"

\* The liveness flag of the record of connection c goes from false to true.
Revived(c) ==
    /\ Registered(c) /\ ~Get(clients, c).alive
    /\ Has(clients', c) /\ Get(clients', c).alive

\* C27 as stated: the liveness flag of a record goes from false to true only
\* when the broker receives a pong of that connection.
C27_Original ==
    [][\A c \in Conns : Revived(c) => (last'.op = "pong" /\ last'.ws = c)]_vars

\* C27 amended: the flag goes from false to true only on a pong or a register
\* of that connection, and a heartbeat tick that finds the flag false
\* terminates the connection.
C27_OnlyPongOrRegisterRevives ==
    [][\A c \in Conns :
          /\ Revived(c) => (last'.op \in {"pong", "register"} /\ last'.ws = c)
          /\ (EventStep /\ last'.op = "heartbeat" /\ Registered(c) /\ ~Get(clients, c).alive)
                => c \in terminated']_vars

\* C27 witness: a connection that was probed and has not answered has sent a
\* discovery, and the flag of its record is still false.
C27_Witness ==
    /\ last.op = "discovery" /\ last.had
    /\ stale[last.ws] = 1
    /\ ~Get(clients, last.ws).alive

\* C28: a heartbeat tick pings or terminates the connections of the registry
\* and no other: a connection without a record keeps its transport as it is
\* and is not terminated, and an open connection that has no record has never
\* been visited by a tick.
C28_UnregisteredNeverProbed ==
    /\ [](\A c \in Conns :
            (readyState[c] = OPEN /\ ~Registered(c)) =>
               (c \notin terminated /\ missed[c] = 0 /\ stale[c] = 0))
    /\ [][(EventStep /\ last'.op = "heartbeat") =>
            /\ last'.killed \cup last'.pinged = Keys(clients)
            /\ \A c \in Conns :
                  ~Registered(c) =>
                     /\ readyState'[c] = readyState[c]
                     /\ c \in terminated' <=> c \in terminated]_vars

\* C28 witness: a tick has terminated a record that did not answer, while a
\* connection that never registered is still open.
C28_Witness ==
    /\ last.op = "heartbeat" /\ last.killed # {}
    /\ \E c \in Conns : readyState[c] = OPEN /\ ~Registered(c) /\ c \notin terminated

\* The broadcasts connection c has been sent since the start, in order: the
\* messages of its inbox but the answers to its own who queries.
Broadcasts(c) ==
    LET frames == SelectSeq(Inbox(c), LAMBDA f : f.msg.type # "who_response")
    IN  [i \in 1..Len(frames) |-> frames[i].msg]
IsSuffix(s, t) ==
    /\ Len(s) <= Len(t)
    /\ SubSeq(t, Len(t) - Len(s) + 1, Len(t)) = s

\* C29: of two connections that are registered and open, the one that
\* registered later has been sent exactly the broadcasts the other has been
\* sent since then, in the same order.
C29_CommonOrder ==
    \A c, d \in OpenRegistry :
        IsSuffix(Broadcasts(c), Broadcasts(d)) \/ IsSuffix(Broadcasts(d), Broadcasts(c))

\* C29 witness: two registered open connections have both been sent the
\* notice and the snapshot of the second register and then a chat, the first
\* of them after the frames of its own register.
C29_Witness ==
    /\ last.op = "chat"
    /\ \E c, d \in OpenRegistry :
          /\ c # d
          /\ Len(Broadcasts(d)) = 3 /\ Len(Broadcasts(c)) = 5
          /\ Broadcasts(d)[1].type = "system"
          /\ Broadcasts(d)[2].type = "participants_update"
          /\ Broadcasts(d)[3].type = "chat"
          /\ IsSuffix(Broadcasts(d), Broadcasts(c))

\* C30: a register leaves the record of its connection with status "idle", no
\* task, joinedAt the time of this register, the liveness flag true and the
\* leaving flag unset, whatever the record was before, and no other event
\* changes joinedAt; so the close with code 1006 of a connection that
\* registered again after it announced leaving is reported as "connection
\* lost", and the duration of every leave notice is counted from the joinedAt
\* of the record removed.
C30_ReRegisterReplacesRecord ==
    /\ [][/\ (EventStep /\ last'.op = "register") =>
                LET info == Get(clients', last'.ws)
                IN  /\ info.status = "idle" /\ info.task = Null
                    /\ info.joinedAt = now
                    /\ info.alive /\ ~info.leaving
          /\ \A c \in Conns :
                (Registered(c) /\ Has(clients', c)
                    /\ Get(clients', c).joinedAt # Get(clients, c).joinedAt)
                   => (last'.op = "register" /\ last'.ws = c)]_vars
    /\ []((Closed /\ announced[last.ws] = "reset" /\ last.code = ABNORMAL) =>
             /\ last.exitReason = "connection lost"
             /\ \A i \in Notices : sent[i].msg.reason = "connection lost")
    /\ [](Closed =>
             \A i \in Notices :
                sent[i].msg.duration =
                   RoundSeconds(sent[i].msg.timestamp - last.info.joinedAt))

\* C30 witness: a connection announced leaving and registered again, with
\* the clock at 500, and its close with code 1006 was reported as "connection
\* lost"; the record removed had the leaving flag unset.
C30_Witness ==
    /\ Closed /\ announced[last.ws] = "reset"
    /\ last.code = ABNORMAL /\ last.exitReason = "connection lost"
    /\ last.info.joinedAt = 500
    /\ ~last.info.leaving

\* The leave notices of sent: the system frames that are not a joined notice.
LeaveNotices == {i \in Notices : sent[i].msg.reason # "joined"}

\* C31: the close event of a connection finds a record in the registry
\* exactly when the connection has registered; the close of a connection that
\* never registered leaves the registry as it was and sends no frame at all;
\* the close of a registered connection removes its record and broadcasts one
\* leave notice: every connection that is then registered and open gets it
\* once, all copies are the same notice and name the record removed; and leave
\* notices are sent by nothing but the close of a registered connection.
C31_UnregisteredCloseIsSilent ==
    /\ [][(EventStep /\ last'.op = "close") =>
            /\ last'.had <=> clientInfo[last'.ws].name # "unknown"
            /\ last'.had <=> Has(clients, last'.ws)
            /\ ~last'.had => (clients' = clients /\ sent' = <<>>)
            /\ last'.had => clients' = MapDelete(clients, last'.ws)]_vars
    /\ [](LeaveNotices # {} => Closed)
    /\ [](Closed =>
            /\ \A d \in OpenRegistry : Cardinality(LeaveNotices \cap NoticesTo(d)) = 1
            /\ Cardinality(LeaveNotices) = Cardinality(OpenRegistry)
            /\ \A i, j \in LeaveNotices : sent[i].msg = sent[j].msg
            /\ \A i \in LeaveNotices : sent[i].msg.name = last.info.name)

\* C31 witness: a connection that never registered is closed while another
\* connection is registered and open, and nothing is sent.
C31_Witness ==
    /\ last.op = "close" /\ ~last.had
    /\ clientInfo[last.ws].name = "unknown"
    /\ OpenRegistry # {}
    /\ sent = <<>>

\* C34: the buffer never holds more than MAX_MESSAGES entries and never a
\* who_response; the handler of a who_response and of a duplicate leaves the
\* buffer as it is; the handler of any other message appends it, and when the
\* buffer was full it drops the oldest entry, so the entries kept stay in the
\* order of their arrival.
C34_BufferIsBounded ==
    /\ [](/\ Len(messages) <= MAX_MESSAGES
          /\ \A i \in 1..Len(messages) : messages[i].type # "who_response")
    /\ [][(steps' # steps /\ delivered'.msg.type # "malformed") =>
            LET msg == delivered'.msg
            IN  IF msg.type = "who_response" \/ isDupe(messages, msg)
                THEN messages' = messages
                ELSE IF Len(messages) = MAX_MESSAGES
                THEN messages' = Append(Tail(messages), msg)
                ELSE messages' = Append(messages, msg)]_vars

\* C34 witness: a message that is no duplicate has arrived at a full buffer:
\* it is the newest of 100 entries and the two oldest entries of the backlog
\* are gone.
C34_Witness ==
    /\ Len(messages) = MAX_MESSAGES
    /\ ~delivered.isDupe
    /\ messages[MAX_MESSAGES] = delivered.msg
    /\ messages[1] = Backlog[3]

\* The results question qId of agent name has been resolved with.
ResultsOf(name, qId) ==
    {i \in 1..Len(resolved) : resolved[i].name = name /\ resolved[i].qId = qId}
Pending(name, qId) == qId \in pendingQuestions[name]
IsAnswerFor(name, msg) ==
    /\ msg.type = "chat" /\ ~Falsy(msg.text) /\ msg.from # name
    /\ Match(msg.text) # <<>>
AskStep == steps' # steps /\ event'.op = "ask"
MessageStep == steps' # steps /\ event'.op = "message"
TimeoutStep == event'.op = "askTimeout" /\ resolved' # resolved

\* C33 as stated: every call is resolved with an answer or with the timeout
\* failure, and the delivery of a chat from another sender whose text contains
\* the tag of a pending question resolves that question.
C33_Original ==
    /\ [](\A i \in 1..Len(resolved) :
             resolved[i].success \/ resolved[i].answer = "No response (timeout)")
    /\ [][MessageStep =>
            LET n == delivered'.name
                msg == delivered'.msg
            IN  \A q \in AskIds :
                   (/\ msg.type = "chat" /\ msg.from # n
                    /\ q \in Tags(msg.text) /\ Pending(n, q)) =>
                      (q \notin pendingQuestions'[n] /\ resolved'[Len(resolved')].success)]_vars

\* C33 amended: a call without a name or by an agent that is not connected
\* is resolved at once with a failure that is not the timeout failure, and
\* enters and sends no question. A call by a connected agent enters its
\* question in pendingQuestions, and the question is resolved exactly once,
\* by what comes first: the delivery, on the agent's connection, of a chat
\* from another sender in whose text the first [A:...] tag carries the id of
\* the question, which resolves it with the text after that tag, or the
\* timeout, which resolves it with the failure; both remove the entry. A
\* delivery resolves no question but the one of its first tag, and none that
\* is not pending.
C33_AskResolvesOnce ==
    /\ [](\A n \in Agents, q \in AskIds :
             Cardinality(ResultsOf(n, q)) + (IF Pending(n, q) THEN 1 ELSE 0) <= 1)
    /\ [][AskStep =>
            IF \/ Falsy(event'.name)
               \/ ~connections[event'.name].has
               \/ ~connections[event'.name].connected
            THEN /\ pendingQuestions' = pendingQuestions
                 /\ sockets' = sockets
                 /\ Len(resolved') = Len(resolved) + 1
                 /\ ~resolved'[Len(resolved')].success
                 /\ resolved'[Len(resolved')].answer # "No response (timeout)"
            ELSE /\ resolved' = resolved
                 /\ pendingQuestions' =
                       [pendingQuestions EXCEPT ![event'.name] = @ \cup {event'.qId}]]_vars
    /\ [][MessageStep =>
            LET n == delivered'.name
                msg == delivered'.msg
            IN  IF IsAnswerFor(n, msg) /\ Pending(n, Match(msg.text)[1])
                THEN /\ pendingQuestions' =
                           [pendingQuestions EXCEPT ![n] = @ \ {Match(msg.text)[1]}]
                     /\ resolved' = Append(resolved,
                           AskResult(n, Match(msg.text)[1], TRUE, Match(msg.text)[2]))
                ELSE /\ pendingQuestions' = pendingQuestions
                     /\ resolved' = resolved]_vars
    /\ [][TimeoutStep =>
            /\ Pending(event'.name, event'.qId)
            /\ pendingQuestions' =
                  [pendingQuestions EXCEPT ![event'.name] = @ \ {event'.qId}]
            /\ resolved' = Append(resolved,
                  AskResult(event'.name, event'.qId, FALSE, "No response (timeout)"))]_vars
    /\ \A n \in Agents, q \in AskIds :
          Pending(n, q) ~> (~Pending(n, q) /\ Cardinality(ResultsOf(n, q)) = 1)

\* C33 witness: one question of an agent was answered and another timed out,
\* and then the answer to the question that timed out is delivered on the
\* agent's connection and changes nothing.
C33_Witness ==
    /\ event.op = "message"
    /\ IsAnswerFor(delivered.name, delivered.msg)
    /\ ~Pending(delivered.name, Match(delivered.msg.text)[1])
    /\ \E i \in ResultsOf(delivered.name, Match(delivered.msg.text)[1]) :
          /\ ~resolved[i].success
          /\ i = Len(resolved)
    /\ \E q \in AskIds : \E i \in ResultsOf(delivered.name, q) : resolved[i].success

\* The socket stored in conn.ws of agent n is open.
CurrentOpen(n) ==
    /\ connections[n].ws # 0
    /\ sockets[connections[n].ws].readyState = OPEN

\* The flags of an agent are true only while the socket in conn.ws is open.
FlagsOnlyWhileOpen ==
    \A n \in Agents :
        (connections[n].connected \/ connections[n].registered) => CurrentOpen(n)

\* A close, timeout or error event of a socket that is not the one in conn.ws
\* leaves the flags of an agent whose current socket is open as they are.
StaleEventKeepsFlags ==
    (/\ steps' # steps
     /\ event'.op \in {"close", "timeout", "error"}
     /\ event'.ws # connections[event'.name].ws
     /\ CurrentOpen(event'.name)) =>
        /\ connections'[event'.name].connected = connections[event'.name].connected
        /\ connections'[event'.name].registered = connections[event'.name].registered

\* C32: the connected and registered flags of every agent are true only
\* while the socket stored in conn.ws is open, and no close, timeout or error
\* event of a socket that connect has replaced changes the flags of an agent
\* whose newer socket is open.
C32_FlagsDescribeCurrentSocket ==
    /\ []FlagsOnlyWhileOpen
    /\ [][StaleEventKeepsFlags]_vars

\* The step in which ensureConnected is called.
EnsureStep == steps' # steps /\ event'.op = "ensureConnected"

\* An ensureConnected call makes at most MAX_RECONNECT_ATTEMPTS connect
\* calls, one per round; it returns wasReconnect true in the round whose
\* connect succeeds and the failure after the last round has failed.
AttemptsBounded ==
    \A n \in Agents :
        /\ ensuring[n].connects <= MAX_RECONNECT_ATTEMPTS
        /\ ensuring[n].connects = ensuring[n].attempt
        /\ ensuring[n].result = "reconnected" => ensuring[n].attempt >= 1
        /\ ensuring[n].result = "failed" =>
              /\ ensuring[n].attempt = MAX_RECONNECT_ATTEMPTS
              /\ sockets[ensuring[n].ws].promise = "failure"
        /\ ensuring[n].result \in {"connected", "notInitialized"} =>
              ensuring[n].connects = 0

\* Called for an agent whose socket is open, ensureConnected returns at once
\* and leaves the sockets and the entries as they are.
OpenSocketIsKept ==
    (EnsureStep /\ event'.wasOpen) =>
        /\ ensuring'[event'.name].result = "connected"
        /\ ensuring'[event'.name].connects = 0
        /\ sockets' = sockets
        /\ connections' = connections

\* Called for a name that has not joined, ensureConnected fails and creates
\* no entry.
UnknownNameFails ==
    (EnsureStep /\ ~connections[event'.name].has) =>
        /\ ensuring'[event'.name].result = "notInitialized"
        /\ connections' = connections
        /\ sockets' = sockets

\* C35: an ensureConnected call for an agent that has joined and whose socket
\* is not open makes at most 3 connect attempts, returns success with
\* wasReconnect true at the first attempt that succeeds and a failure after
\* the third failed attempt; for an agent whose socket is open it makes no
\* connect attempt and sends no register; for a name that never joined it
\* fails without creating a connection entry.
C35_EnsureConnectedIsBounded ==
    /\ []AttemptsBounded
    /\ [][OpenSocketIsKept]_vars
    /\ [][UnknownNameFails]_vars
====
